---- MODULE Spec2Model ----
(***************************************************************************)
(* A model of the WhatsApp export viewer (src/src/app/page.tsx): the       *)
(* archive load pipeline processZipFile with its suspension points, the    *)
(* transcript parser, the IndexedDB store helpers, and the handlers that   *)
(* switch or close the displayed session.                                  *)
(*                                                                         *)
(* JavaScript strings are sequences of one-character strings, so that the  *)
(* regular expressions of the source are computed character by character.  *)
(***************************************************************************)
EXTENDS Integers, Sequences, FiniteSets, TLC

(***************************************************************************)
(* Strings                                                                 *)
(***************************************************************************)

\* An optional result (a match that may be null) is a sequence of length 0 or
\* 1; an optional property of an object is a field that the record has or
\* has not.
Null == <<>>

\* \s of a JavaScript regular expression, and the characters String.trim removes
IsSpace(c) == c \in {" ", "\n", "\t", "\r"}

\* the line terminators, which "." of a regular expression does not match
IsNewline(c) == c \in {"\n", "\r"}

\* String.prototype.toLowerCase on one character (also the /i flag's folding)
LowerChar(c) ==
  CASE c = "A" -> "a" [] c = "B" -> "b" [] c = "C" -> "c" [] c = "D" -> "d"
    [] c = "E" -> "e" [] c = "F" -> "f" [] c = "G" -> "g" [] c = "H" -> "h"
    [] c = "I" -> "i" [] c = "J" -> "j" [] c = "K" -> "k" [] c = "L" -> "l"
    [] c = "M" -> "m" [] c = "N" -> "n" [] c = "O" -> "o" [] c = "P" -> "p"
    [] c = "Q" -> "q" [] c = "R" -> "r" [] c = "S" -> "s" [] c = "T" -> "t"
    [] c = "U" -> "u" [] c = "V" -> "v" [] c = "W" -> "w" [] c = "X" -> "x"
    [] c = "Y" -> "y" [] c = "Z" -> "z" [] OTHER -> c

toLowerCase(s) == [i \in 1..Len(s) |-> LowerChar(s[i])]

\* s.substring(from, to) with 1-based inclusive positions; empty when from > to
Sub(s, from, to) == IF from > to THEN <<>> ELSE SubSeq(s, from, to)

\* the least and the greatest element of a non-empty set of integers
Min(S) == CHOOSE x \in S : \A y \in S : x <= y
Max(S) == CHOOSE x \in S : \A y \in S : y <= x

\* s from the first to the last of the positions keep
Between(s, keep) == IF keep = {} THEN <<>> ELSE Sub(s, Min(keep), Max(keep))

\* String.prototype.trim
trim(s) == Between(s, {i \in 1..Len(s) : ~IsSpace(s[i])})

\* no line terminator among s[from..to]
NoNewline(s, from, to) == \A k \in from..to : ~IsNewline(s[k])

\* the first position at or after p that is not whitespace (Len(s)+1 if none):
\* where a greedy \s* started at p stops
SkipSpace(s, p) ==
  CHOOSE k \in p..(Len(s) + 1) :
    /\ k <= Len(s) => ~IsSpace(s[k])
    /\ \A j \in p..(k - 1) : IsSpace(s[j])

\* pat occurs in s at position p; ci folds letter case (the /i flag)
MatchAt(s, p, pat, ci) ==
  /\ p >= 1
  /\ p + Len(pat) - 1 <= Len(s)
  /\ \A k \in 1..Len(pat) :
       IF ci THEN LowerChar(s[p + k - 1]) = LowerChar(pat[k])
       ELSE s[p + k - 1] = pat[k]

\* String.prototype.includes
includes(s, pat) == \E p \in 1..(Len(s) + 1) : MatchAt(s, p, pat, FALSE)

(***************************************************************************)
(* getAttachmentType                                                       *)
(***************************************************************************)

ImageExts == {<<"j", "p", "g">>, <<"j", "p", "e", "g">>, <<"p", "n", "g">>, <<"g", "i", "f">>, <<"w", "e", "b", "p">>}
VideoExts == {<<"m", "p", "4">>, <<"a", "v", "i">>, <<"m", "o", "v">>, <<"w", "e", "b", "m">>, <<"m", "k", "v">>}
AudioExts == {<<"m", "p", "3">>, <<"w", "a", "v">>, <<"o", "g", "g">>, <<"m", "4", "a">>}
StickerWord == <<"s", "t", "i", "c", "k", "e", "r">>

\* filename.split('.').pop(): the text after the last dot, the whole name when
\* it has no dot
LastSegment(filename) ==
  IF \A k \in 1..Len(filename) : filename[k] # "." THEN filename
  ELSE Sub(filename, Max({k \in 1..Len(filename) : filename[k] = "."}) + 1, Len(filename))

\* lines 298-302, ext being the lower-cased extension
TypeOf(filename, ext) ==
  IF ext \in ImageExts THEN "image"
  ELSE IF ext \in VideoExts THEN "video"
  ELSE IF ext \in AudioExts THEN "audio"
  ELSE IF includes(toLowerCase(filename), StickerWord) THEN "sticker"
  ELSE "document"

getAttachmentType(filename) == TypeOf(filename, toLowerCase(LastSegment(filename)))

(***************************************************************************)
(* parseMessages                                                           *)
(***************************************************************************)

\* messageRegex = /\[(.*?),\s*(.*?)\]\s*(.*?):\s*/ tried at the "[" of
\* position i. Each lazy group ends at the first "," / "]" / ":" from which
\* the rest of the pattern still matches (backtracking), "." matches no line
\* terminator, and the \s* runs are greedy. The three operators below are the
\* positions at which the ":", the "]" and the "," of a match can stand.
ColonsFrom(text, from) ==
  {q \in from..Len(text) : text[q] = ":" /\ NoNewline(text, from, q - 1)}

Colons(text, b) == ColonsFrom(text, SkipSpace(text, b + 1))

BracketsFrom(text, from) ==
  {b \in from..Len(text) :
     text[b] = "]" /\ NoNewline(text, from, b - 1) /\ Colons(text, b) # {}}

Brackets(text, c) == BracketsFrom(text, SkipSpace(text, c + 1))

Commas(text, i) ==
  {c \in (i + 1)..Len(text) :
     text[c] = "," /\ NoNewline(text, i + 1, c - 1) /\ Brackets(text, c) # {}}

\* the match with its "[" at i, "," at c, "]" at b and ":" at q: index is
\* match.index, next the position after the match (lastIndex), and date,
\* time, sender are the groups 1, 2, 3
Header(text, i, c, b, q) ==
  [index  |-> i,
   date   |-> Sub(text, i + 1, c - 1),
   time   |-> Sub(text, SkipSpace(text, c + 1), b - 1),
   sender |-> Sub(text, SkipSpace(text, b + 1), q - 1),
   next   |-> SkipSpace(text, q + 1)]

HeaderAtBracket(text, i, c, b) == Header(text, i, c, b, Min(Colons(text, b)))

HeaderAtComma(text, i, c) == HeaderAtBracket(text, i, c, Min(Brackets(text, c)))

\* messageRegex matches at position i
HeaderAt(text, i) == i <= Len(text) /\ text[i] = "[" /\ Commas(text, i) # {}

\* the match of messageRegex that starts at position i, Null if there is none
HeaderMatch(text, i) ==
  IF ~HeaderAt(text, i) THEN Null
  ELSE <<HeaderAtComma(text, i, Min(Commas(text, i)))>>

\* the first match among those that start at the positions starts
FirstHeader(text, starts) ==
  IF starts = {} THEN Null ELSE HeaderMatch(text, Min(starts))

\* messageRegex.exec(text) with lastIndex = from - 1: the leftmost match at or
\* after position from, Null when there is none
ExecHeader(text, from) ==
  FirstHeader(text, {i \in from..Len(text) : HeaderAt(text, i)})

\* the successive matches of the while loop of line 314, in order
RECURSIVE HeaderMatches(_, _)
RECURSIVE HeadersFrom(_, _)
HeadersFrom(text, m) ==
  IF m = Null THEN <<>> ELSE m \o HeaderMatches(text, m[1].next)

HeaderMatches(text, from) == HeadersFrom(text, ExecHeader(text, from))

AttachedOpen == <<"<", "a", "t", "t", "a", "c", "h", "e", "d", ":", " ">>
MediaOmitted == <<"<", "M", "e", "d", "i", "a", " ", "o", "m", "i", "t", "t", "e", "d", ">">>

\* /<attached: (.+?)>|<Media omitted>/i: where the ">" of the first
\* alternative can stand when its "<" is at p (group 1 has a character at
\* least and no line terminator)
Closers(msgText, p) ==
  {g \in (p + Len(AttachedOpen) + 1)..Len(msgText) :
     msgText[g] = ">" /\ NoNewline(msgText, p + Len(AttachedOpen), g - 1)}

Attached(msgText, p) == MatchAt(msgText, p, AttachedOpen, TRUE) /\ Closers(msgText, p) # {}

Omitted(msgText, p) == MatchAt(msgText, p, MediaOmitted, TRUE)

\* the match of the first alternative at p, the lazy group ending at the
\* first ">" g: all is match[0], fileName is match[1]
AttachedMatch(msgText, p, g) ==
  [all |-> Sub(msgText, p, g), fileName |-> Sub(msgText, p + Len(AttachedOpen), g - 1)]

\* the match at p, the first alternative tried first; the second leaves
\* match[1] undefined
MarkerAt(msgText, p) ==
  IF Attached(msgText, p)
  THEN AttachedMatch(msgText, p, Min(Closers(msgText, p)))
  ELSE [all |-> Sub(msgText, p, p + Len(MediaOmitted) - 1)]

FirstMarker(msgText, starts) ==
  IF starts = {} THEN Null ELSE <<MarkerAt(msgText, Min(starts))>>

\* msgText.match(/<attached: (.+?)>|<Media omitted>/i): the leftmost match
AttachmentMatch(msgText) ==
  FirstMarker(msgText, {p \in 1..Len(msgText) : Attached(msgText, p) \/ Omitted(msgText, p)})

\* s with the Len(pat) characters at the first of the positions at removed
RemoveAt(s, pat, at) ==
  IF at = {} THEN s
  ELSE Sub(s, 1, Min(at) - 1) \o Sub(s, Min(at) + Len(pat), Len(s))

\* s.replace(pat, ''): s without the first occurrence of the string pat
RemoveFirst(s, pat) ==
  RemoveAt(s, pat, {p \in 1..(Len(s) + 1) : MatchAt(s, p, pat, FALSE)})

\* lines 321-331 (and 350-360), attachmentMatch being the match of the marker
Resolved(msg, msgText, attachmentMatch, attachmentMap) ==
  IF attachmentMatch # Null
  THEN IF "fileName" \in DOMAIN attachmentMatch[1]
          /\ attachmentMatch[1].fileName \in DOMAIN attachmentMap
       THEN [date |-> msg.date, time |-> msg.time, sender |-> msg.sender,
             text |-> trim(RemoveFirst(msgText, attachmentMatch[1].all)),
             attachment |-> attachmentMap[attachmentMatch[1].fileName]]
       ELSE [msg EXCEPT !.text = msgText]
  ELSE [msg EXCEPT !.text = msgText]

\* lines 317-331 for prevMsg in the loop and lines 346-360 for lastMsg after
\* it, the same code: the message completed with its text and, when the
\* marker's file name is a key of attachmentMap, its attachment
WithBody(msg, msgText, attachmentMap) ==
  Resolved(msg, msgText, AttachmentMatch(msgText), attachmentMap)

\* a variant of Messages that keeps no message without text and attachment
MessagesNonEmpty(text, ms, attachmentMap) ==
  SelectSeq([k \in 1..Len(ms) |->
               WithBody([date |-> ms[k].date, time |-> ms[k].time,
                         sender |-> ms[k].sender, text |-> <<>>],
                        trim(Sub(text, ms[k].next,
                                 IF k < Len(ms) THEN ms[k + 1].index - 1 ELSE Len(text))),
                        attachmentMap)],
            LAMBDA msg : msg.text # <<>> \/ "attachment" \in DOMAIN msg)

\* a variant of Messages in which a body ends with its first line
MessagesOfOneLine(text, ms, attachmentMap) ==
  [k \in 1..Len(ms) |->
     WithBody([date |-> ms[k].date, time |-> ms[k].time, sender |-> ms[k].sender,
               text |-> <<>>],
              trim(Sub(text, ms[k].next,
                       Min({i \in ms[k].next..Len(text) : text[i] = "\n"}
                             \cup {IF k < Len(ms) THEN ms[k + 1].index ELSE Len(text) + 1})
                         - 1)),
              attachmentMap)]

\* the messages of the matches ms: the body of each runs from the end of its
\* header to the start of the next one, or to the end of the text
Messages(text, ms, attachmentMap) ==
  [k \in 1..Len(ms) |->
     WithBody([date |-> ms[k].date, time |-> ms[k].time, sender |-> ms[k].sender,
               text |-> <<>>],
              trim(Sub(text, ms[k].next,
                       IF k < Len(ms) THEN ms[k + 1].index - 1 ELSE Len(text))),
              attachmentMap)]

parseMessages(text, attachmentMap) ==
  Messages(text, HeaderMatches(text, 1), attachmentMap)

(***************************************************************************)
(* extractChatName                                                         *)
(***************************************************************************)

ZipExt == <<".", "z", "i", "p">>
ChatNamePatterns == <<<<"W", "h", "a", "t", "s", "A", "p", "p", " ", "C", "h", "a", "t", " ", "-", " ">>, <<"W", "h", "a", "t", "s", "A", "p", "p", " ", "C", "h", "a", "t", " ", "w", "i", "t", "h", " ">>, <<"W", "h", "a", "t", "s", "A", "p", "p", " ">>>>

\* fileName.replace(/\.zip$/i, '')
WithoutZipExt(fileName) ==
  IF MatchAt(fileName, Len(fileName) - Len(ZipExt) + 1, ZipExt, TRUE)
  THEN Sub(fileName, 1, Len(fileName) - Len(ZipExt))
  ELSE fileName

\* the rest of the line of s from position from
RestOfLine(s, from) ==
  IF \A k \in from..Len(s) : ~IsNewline(s[k]) THEN Sub(s, from, Len(s))
  ELSE Sub(s, from, Min({k \in from..Len(s) : IsNewline(s[k])}) - 1)

\* where /<prefix>(.+)/i matches in s: the prefix, read without regard to
\* letter case, and a character after it that is no line terminator
PrefixStarts(s, prefix) ==
  {p \in 1..Len(s) :
     /\ MatchAt(s, p, prefix, TRUE)
     /\ p + Len(prefix) <= Len(s)
     /\ ~IsNewline(s[p + Len(prefix)])}

\* s.match(/<prefix>(.+)/i)[1]: group 1 of the leftmost match, greedy to the
\* end of the line
MatchAfter(s, prefix) == RestOfLine(s, Min(PrefixStarts(s, prefix)) + Len(prefix))

\* lines 203-210, hits being the patterns that match, by position in the list
NameFrom(nameWithoutExt, hits) ==
  IF hits = {} THEN trim(nameWithoutExt)
  ELSE trim(MatchAfter(nameWithoutExt, ChatNamePatterns[Min(hits)]))

\* lines 196-210, nameWithoutExt being the file name without its extension
NameOf(nameWithoutExt) ==
  NameFrom(nameWithoutExt,
           {k \in 1..Len(ChatNamePatterns) :
              PrefixStarts(nameWithoutExt, ChatNamePatterns[k]) # {}})

extractChatName(fileName) == NameOf(WithoutZipExt(fileName))

(***************************************************************************)
(* The archives the user can pick or drop. A File is the Blob handed to    *)
(* processZipFile: zip tells whether JSZip.loadAsync accepts its bytes,    *)
(* files is contents.files in archive order. An entry's ok tells whether   *)
(* its data decompresses (zipEntry.async resolves) or is corrupt.          *)
(***************************************************************************)

ChatTxt == <<"_", "c", "h", "a", "t", ".", "t", "x", "t">>

Transcript1 == <<"[", "1", "/", "1", ",", " ", "9", ":", "0", "0", "]", " ", "A", "l", ":", " ", "h", "i", "\n", "[", "1", "/", "1", ",", " ", "9", ":", "0", "1", "]", " ", "B", "o", ":", " ", "<", "a", "t", "t", "a", "c", "h", "e", "d", ":", " ", "p", ".", "j", "p", "g", ">">>
Transcript2 == <<"[", "2", "/", "1", ",", " ", "8", ":", "0", "0", "]", " ", "A", "l", ":", " ", "<", "a", "t", "t", "a", "c", "h", "e", "d", ":", " ", "v", ".", "m", "p", "4", ">", "\n", "[", "2", "/", "1", ",", " ", "8", ":", "0", "1", "]", " ", "A", "l", ":", " ", "<", "a", "t", "t", "a", "c", "h", "e", "d", ":", " ", "c", ".", "p", "d", "f", ">", " ", "o", "k">>
Transcript3 == <<"M", "e", "s", "s", "a", "g", "e", "s", " ", "a", "r", "e", " ", "e", "n", "d", "-", "t", "o", "-", "e", "n", "d", " ", "e", "n", "c", "r", "y", "p", "t", "e", "d">>

Files ==
  << [name  |-> <<"W", "h", "a", "t", "s", "A", "p", "p", " ", "C", "h", "a", "t", " ", "-", " ", "A", "l", ".", "z", "i", "p">>, zip |-> TRUE,
      files |-> << [name |-> <<"m", "/">>, dir |-> TRUE, ok |-> TRUE, size |-> 0],
                   [name |-> ChatTxt, dir |-> FALSE, ok |-> TRUE, size |-> 5,
                    text |-> Transcript1],
                   [name |-> <<"p", ".", "j", "p", "g">>, dir |-> FALSE, ok |-> TRUE, size |-> 7] >>],
     [name  |-> <<"B", "o", ".", "z", "i", "p">>, zip |-> TRUE,
      files |-> << [name |-> <<"v", ".", "m", "p", "4">>, dir |-> FALSE, ok |-> TRUE, size |-> 9],
                   [name |-> <<"c", ".", "p", "d", "f">>, dir |-> FALSE, ok |-> FALSE, size |-> 3],
                   [name |-> ChatTxt, dir |-> FALSE, ok |-> TRUE, size |-> 6,
                    text |-> Transcript2] >>],
     [name  |-> <<"m", "e", "d", "i", "a", ".", "z", "i", "p">>, zip |-> TRUE,
      files |-> << [name |-> <<"n", ".", "p", "d", "f">>, dir |-> FALSE, ok |-> TRUE, size |-> 2] >>],
     [name  |-> <<"W", "h", "a", "t", "s", "A", "p", "p", " ", "C", "y", ".", "Z", "I", "P">>, zip |-> TRUE,
      files |-> << [name |-> ChatTxt, dir |-> FALSE, ok |-> TRUE, size |-> 4,
                    text |-> Transcript3],
                   [name |-> <<"d", ".", "p", "d", "f">>, dir |-> FALSE, ok |-> TRUE, size |-> 8] >>],
     [name  |-> <<"n", "o", "t", "e", "s", ".", "t", "x", "t">>, zip |-> FALSE, files |-> <<>>],
     [name  |-> <<"b", "a", "d", ".", "z", "i", "p">>, zip |-> TRUE,
      files |-> << [name |-> ChatTxt, dir |-> FALSE, ok |-> FALSE, size |-> 4,
                    text |-> Transcript3] >>] >>

FileIds == 1..Len(Files)

\* the name that localStorage holds under 'whatsapp-viewer-username' at mount
UserName == <<"A", "l">>

\* contents.file('_chat.txt'): the positions of the entry (none or one)
ChatFile(f) ==
  {k \in 1..Len(Files[f].files) :
     Files[f].files[k].name = ChatTxt /\ ~Files[f].files[k].dir}

\* the entries the for loop of processZipFile does not skip, from position from
Attachments(f, from) ==
  {k \in from..Len(Files[f].files) :
     ~(Files[f].files[k].name = ChatTxt \/ Files[f].files[k].dir)}

(***************************************************************************)
(* Bounds                                                                  *)
(***************************************************************************)

\* processZipFile calls started in one behaviour
MaxLoads == 2
\* handleDeleteChat calls confirmed in one behaviour
MaxDeletes == 1
\* the largest value Date.now() returns
MaxClock == 2

(***************************************************************************)
(* State                                                                   *)
(***************************************************************************)

VARIABLES
  allMessages,        \* useState<Message[]>
  allSenders,         \* useState<string[]>
  currentUser,        \* useState<string>
  savedUsername,      \* useState<string>, read from localStorage at mount
  loading,            \* useState(false)
  searchTerm,         \* useState('')
  searchResults,      \* useState<number[]>
  currentSearchIndex, \* useState(-1)
  savedChats,         \* useState<SavedChat[]>
  currentChatId,      \* useState<string>
  currentChatName,    \* useState<string>
  showMediaPanel,     \* useState(false)
  rowHeights,         \* useRef: index -> measured height
  blobUrls,           \* useRef<string[]>: the handles tracked for revocation
  live,               \* the handles created and not yet revoked
  db,                 \* the object store 'chats' of IndexedDB: id -> SavedChat
  now,                \* the last value Date.now() returned
  loads,              \* the processZipFile calls, in the order they started
  deletes,            \* the confirmed handleDeleteChat calls
  alerted,            \* the alert() shown by the last step ("" if none)
  logged,             \* the console.error of the last step ("" if none)
  handled             \* the handler of the search bar, of the list or of the
                      \* back button that ran last, with the results and the
                      \* cursor it found and the call it made on listRef
                      \* (Null before the first)

session == <<allMessages, allSenders, currentUser, currentChatId, currentChatName>>
search == <<searchTerm, searchResults, currentSearchIndex, handled>>
handles == <<blobUrls, live>>
vars == <<allMessages, allSenders, currentUser, savedUsername, loading, searchTerm,
          searchResults, currentSearchIndex, savedChats, currentChatId,
          currentChatName, showMediaPanel, rowHeights, blobUrls, live, db,
          now, loads, deletes, alerted, logged, handled>>

\* the set of elements of a sequence
Range(seq) == {seq[k] : k \in 1..Len(seq)}

\* line 870: the dropzone and the file input are rendered in this case only
isEmptyState == allMessages = <<>> /\ ~loading

\* the calls between their start and the point they settle
InFlight == {l \in 1..Len(loads) : loads[l].pc # "done"}

(***************************************************************************)
(* The store helpers (the transaction of each is one step)                 *)
(***************************************************************************)

\* a variant of put for a store with a key generator instead of keyPath 'id':
\* a record whose id is stored already is added under a key of its own
PutAdding(store, chat) ==
  IF chat.id \in DOMAIN store
  THEN ((chat.id \o "+") :> chat) @@ store
  ELSE (chat.id :> chat) @@ store

\* store.put(chat) on an object store with keyPath 'id'
Put(store, chat) == (chat.id :> chat) @@ store

\* a variant of delete that empties the store, as store.clear() does
DeleteClearing(store, id) == [k \in {} |-> store[k]]

\* store.delete(id)
Delete(store, id) == [k \in DOMAIN store \ {id} |-> store[k]]

\* seq ordered by ascending key[i], the key of seq[i]; elements with equal
\* keys keep their order (Array.prototype.sort is stable)
StableSort(seq, key) ==
  [p \in 1..Len(seq) |->
     seq[CHOOSE i \in 1..Len(seq) :
           p = 1 + Cardinality({j \in 1..Len(seq) :
                                  key[j] < key[i] \/ (key[j] = key[i] /\ j < i)})]]

\* store.getAll(): the records in key order. The keys are the decimal strings
\* of Date.now() values, which all have the same number of digits, so key
\* order is the order of those values.
KeyValue(id) == CHOOSE i \in 0..MaxClock : ToString(i) = id

InKeyOrder(recs) == StableSort(recs, [i \in 1..Len(recs) |-> KeyValue(recs[i].id)])

\* the records of the store, in some order
RECURSIVE Records(_, _)
Records(store, ids) ==
  IF ids = {} THEN <<>>
  ELSE <<store[CHOOSE k \in ids : TRUE]>>
         \o Records(store, ids \ {CHOOSE k \in ids : TRUE})

\* a variant of getAll that misses the record with the lowest key
GetAllSkippingFirst(store) ==
  IF DOMAIN store = {} THEN <<>> ELSE Tail(InKeyOrder(Records(store, DOMAIN store)))

GetAll(store) == InKeyOrder(Records(store, DOMAIN store))

\* chats.sort((a, b) => b.timestamp - a.timestamp)
ByTimestampDesc(chats) ==
  StableSort(chats, [i \in 1..Len(chats) |-> 0 - chats[i].timestamp])

(***************************************************************************)
(* processZipFile. A call is a record of loads: pc is the await it is      *)
(* suspended at ("done" once it has returned), the other fields are its    *)
(* parameters, the savedUsername its closure captured, and its locals.     *)
(* Two fields are no variables of the source: hadSession tells whether a   *)
(* session was displayed when the call started, and touched whether a step *)
(* of the call has changed the displayed session or the set of live        *)
(* handles since.                                                          *)
(* Each action below is the synchronous code run when that await settles,  *)
(* up to the next await.                                                   *)
(***************************************************************************)

\* lines 372-379: the call up to `await zip.loadAsync(file)`
processZipFile(file, fileName, chatId, chatName) ==
  /\ Len(loads) < MaxLoads
  /\ loading' = TRUE
  /\ searchTerm' = <<>>
  /\ searchResults' = <<>>
  /\ currentSearchIndex' = -1
  /\ handled' = handled
  /\ loads' = Append(loads, [pc |-> "loadAsync", file |-> file, fileName |-> fileName,
                             chatId |-> chatId, chatName |-> chatName,
                             savedUsername |-> savedUsername, pos |-> 0,
                             attachmentMap |-> <<>>, urls |-> 0,
                             parsed |-> Null, savedChat |-> Null, outcome |-> "",
                             hadSession |-> (currentChatId # "" \/ allMessages # <<>>),
                             touched |-> FALSE])
  /\ alerted' = ""
  /\ logged' = ""
  /\ UNCHANGED <<session, savedUsername, savedChats, showMediaPanel, rowHeights,
                 handles, db, now, deletes>>

\* lines 476-480
handleFile(f) ==
  /\ isEmptyState
  /\ processZipFile(f, Files[f].name, "", <<>>)

\* lines 482-490
handleDrop(f) ==
  /\ isEmptyState
  /\ IF MatchAt(Files[f].name, Len(Files[f].name) - Len(ZipExt) + 1, ZipExt, FALSE)
     THEN processZipFile(f, Files[f].name, "", <<>>)
     ELSE /\ alerted' = "Please drop a valid ZIP file"
          /\ logged' = ""
          /\ UNCHANGED <<session, savedUsername, loading, search, savedChats,
                         showMediaPanel, rowHeights, handles, db, now, loads, deletes>>

\* lines 496-498, from the onClick of a chat item of the sidebar (line 948)
loadSavedChat(chat) ==
  /\ chat \in Range(savedChats)
  /\ processZipFile(chat.zipBlob, chat.name, chat.id, chat.name)

\* the call returned: its parameters and locals are gone; outcome tells how it
\* ended, "ok" at the end of the try block, "noChat" at line 385, "error" in
\* the catch
Return(outcome) ==
  [pc |-> "done", file |-> 0, fileName |-> <<>>, chatId |-> "", chatName |-> <<>>,
   savedUsername |-> <<>>, pos |-> 0, attachmentMap |-> <<>>, urls |-> 0,
   parsed |-> Null, savedChat |-> Null, outcome |-> outcome, hadSession |-> FALSE,
   touched |-> FALSE]

\* lines 468-473: catch and finally
Catch(l) ==
  /\ logged' = "Error:"
  /\ alerted' = "Error loading chat file"
  /\ loading' = FALSE
  /\ loads' = [loads EXCEPT ![l] = Return("error")]

\* URL.createObjectURL returns a handle that differs from every earlier one:
\* the k-th handle created on behalf of the l-th call
Url(l, k) == <<l, k>>

\* a variant of NextEntry in which the loop ends at once, whatever entries
\* follow
NextEntryLeavingLoop(call, map) == [call EXCEPT !.pc = "string", !.attachmentMap = map]

\* the for loop of lines 392-424 continued after position pos with the map
\* as it is now: suspended at the next entry's `await zipEntry.async('blob')`,
\* or past the loop at `await chatFile.async('string')`
NextEntry(call, map) ==
  IF Attachments(call.file, call.pos + 1) = {}
  THEN [call EXCEPT !.pc = "string", !.attachmentMap = map]
  ELSE [call EXCEPT !.pc = "blob", !.pos = Min(Attachments(call.file, call.pos + 1)),
                    !.attachmentMap = map]

\* a variant of NoChatFile in which the tracked handles are revoked (lines
\* 388-389) before the check of line 382 instead of after it
NoChatFileRevoking(l) ==
  /\ alerted' = "No _chat.txt file found in zip!"
  /\ logged' = ""
  /\ loading' = FALSE
  /\ loads' = [loads EXCEPT ![l] = Return("noChat")]
  /\ live' = live \ Range(blobUrls)
  /\ blobUrls' = <<>>
  /\ UNCHANGED <<session, savedUsername, search, savedChats, showMediaPanel,
                 rowHeights, db, now, deletes>>

\* lines 382-386: the archive has no _chat.txt
NoChatFile(l) ==
  /\ alerted' = "No _chat.txt file found in zip!"
  /\ logged' = ""
  /\ loading' = FALSE
  /\ loads' = [loads EXCEPT ![l] = Return("noChat")]
  /\ UNCHANGED <<session, savedUsername, search, savedChats, showMediaPanel,
                 rowHeights, handles, db, now, deletes>>

\* lines 379-394: loadAsync settles
LoadAsync(l) ==
  /\ l \in 1..Len(loads)
  /\ loads[l].pc = "loadAsync"
  /\ IF ~Files[loads[l].file].zip
     THEN /\ Catch(l)
          /\ UNCHANGED <<session, savedUsername, search, savedChats, showMediaPanel,
                         rowHeights, handles, db, now, deletes>>
     ELSE IF ChatFile(loads[l].file) = {}
     THEN NoChatFile(l)
     ELSE /\ live' = live \ Range(blobUrls)
          /\ blobUrls' = <<>>
          /\ loads' = [loads EXCEPT ![l] =
               NextEntry([loads[l] EXCEPT !.touched = @ \/ live' # live], <<>>)]
          /\ alerted' = ""
          /\ logged' = ""
          /\ UNCHANGED <<session, savedUsername, loading, search, savedChats,
                         showMediaPanel, rowHeights, db, now, deletes>>

\* lines 417-423, with thumbnailUrl undefined
NewAttachment(entry, blobUrl) ==
  [name |-> entry.name, type |-> getAttachmentType(entry.name), blobUrl |-> blobUrl,
   size |-> entry.size]

\* lines 417-423, with a thumbnail
WithThumbnail(attachment, thumbnailUrl) ==
  [name |-> attachment.name, type |-> attachment.type, blobUrl |-> attachment.blobUrl,
   size |-> attachment.size, thumbnailUrl |-> thumbnailUrl]

\* attachmentMap.set(filename, attachment)
MapSet(attachmentMap, attachment) == (attachment.name :> attachment) @@ attachmentMap

\* lines 395-417 for an entry of the given type whose blob is there: blobUrl
\* is the first new handle. generateThumbnail and generateVideoThumbnail
\* create a handle of their own (url, lines 93 and 150) before they suspend:
\* while the call waits for the thumbnail, blobUrl is the handle before its
\* last one and url its last one.
Extracted(l, call, entry, type) ==
  /\ blobUrls' = Append(blobUrls, Url(l, call.urls + 1))
  /\ IF type \in {"image", "sticker", "video"}
     THEN /\ live' = live \cup {Url(l, call.urls + 1), Url(l, call.urls + 2)}
          /\ loads' = [loads EXCEPT ![l].pc = "thumbnail", ![l].urls = call.urls + 2,
                                    ![l].touched = TRUE]
     ELSE /\ live' = live \cup {Url(l, call.urls + 1)}
          /\ loads' = [loads EXCEPT ![l] =
               NextEntry([call EXCEPT !.urls = call.urls + 1, !.touched = TRUE],
                         MapSet(call.attachmentMap,
                                NewAttachment(entry, Url(l, call.urls + 1))))]
  /\ alerted' = ""
  /\ logged' = ""
  /\ UNCHANGED <<session, savedUsername, loading, search, savedChats,
                 showMediaPanel, rowHeights, db, now, deletes>>

\* line 394: zipEntry.async('blob') settles; it rejects for an entry whose
\* data is corrupt, which the catch of line 468 handles
BlobSettled(l, call, entry) ==
  IF ~entry.ok
  THEN /\ Catch(l)
       /\ UNCHANGED <<session, savedUsername, search, savedChats, showMediaPanel,
                      rowHeights, handles, db, now, deletes>>
  ELSE Extracted(l, call, entry, getAttachmentType(entry.name))

Blob(l) ==
  /\ l \in 1..Len(loads)
  /\ loads[l].pc = "blob"
  /\ BlobSettled(l, loads[l], Files[loads[l].file].files[loads[l].pos])

\* how generateThumbnail / generateVideoThumbnail can settle: resolved; the
\* image or video fails to load (onerror); getContext('2d') returns null;
\* toBlob yields null
ThumbnailOutcomes == {"resolved", "onerror", "noContext", "noBlob"}

\* a variant of ThumbnailFailed without the try/catch of lines 402-407 and
\* 409-414: the rejection reaches the catch of line 468
ThumbnailRethrown(l, call, how, attachment, url) ==
  /\ live' = IF how = "noContext" THEN live ELSE live \ {url}
  /\ UNCHANGED blobUrls
  /\ Catch(l)

\* lines 405-407 and 412-414 with lines 115-119, 128-130, 137-140, 161-165,
\* 174-176 and 183-186: the generator rejects and the catch logs it; the
\* entry goes into the map without thumbnailUrl. The generator revoked its
\* url, except when getContext returned null.
ThumbnailFailed(l, call, how, attachment, url) ==
  /\ live' = IF how = "noContext" THEN live ELSE live \ {url}
  /\ UNCHANGED blobUrls
  /\ loads' = [loads EXCEPT ![l] =
       NextEntry(call, MapSet(call.attachmentMap, attachment))]
  /\ logged' = IF attachment.type = "video"
               THEN "Error generating video thumbnail:"
               ELSE "Error generating image thumbnail:"
  /\ alerted' = ""
  /\ UNCHANGED loading

\* lines 401-423 with lines 95-140 and 156-186: the thumbnail of the
\* attachment settles; url is the handle the generator created for itself
\* and thumbnailUrl the one it resolves with
ThumbnailSettled(l, call, how, attachment, url, thumbnailUrl) ==
  /\ IF how = "resolved"
     THEN /\ live' = (live \ {url}) \cup {thumbnailUrl}
          /\ blobUrls' = Append(blobUrls, thumbnailUrl)
          /\ loads' = [loads EXCEPT ![l] =
               NextEntry([call EXCEPT !.urls = call.urls + 1],
                         MapSet(call.attachmentMap,
                                WithThumbnail(attachment, thumbnailUrl)))]
          /\ logged' = ""
          /\ alerted' = ""
          /\ UNCHANGED loading
     ELSE ThumbnailFailed(l, call, how, attachment, url)
  /\ UNCHANGED <<session, savedUsername, search, savedChats,
                 showMediaPanel, rowHeights, db, now, deletes>>

Thumbnail(l, how) ==
  /\ l \in 1..Len(loads)
  /\ loads[l].pc = "thumbnail"
  /\ ThumbnailSettled(l, loads[l], how,
                      NewAttachment(Files[loads[l].file].files[loads[l].pos],
                                    Url(l, loads[l].urls - 1)),
                      Url(l, loads[l].urls), Url(l, loads[l].urls + 1))

\* the elements of xs at the positions S, in order
RECURSIVE Pick(_, _)
Pick(xs, S) == IF S = {} THEN <<>> ELSE <<xs[Min(S)]>> \o Pick(xs, S \ {Min(S)})

\* [...new Set(xs)]: xs without the repetitions, in order of first occurrence
Distinct(xs) ==
  Pick(xs, {k \in 1..Len(xs) : \A j \in 1..(k - 1) : xs[j] # xs[k]})

\* line 432
Senders(parsed) == Distinct([k \in 1..Len(parsed) |-> trim(parsed[k].sender)])

\* lines 442-452: the record of a fresh upload, Date.now() being t
NewSavedChat(file, fileName, chatName, parsed, senders, t) ==
  [id |-> ToString(t),
   name |-> IF chatName # <<>> THEN chatName ELSE extractChatName(fileName),
   timestamp |-> t,
   messageCount |-> Len(parsed),
   participants |-> senders,
   zipBlob |-> file]

\* a variant of Identify without the test of line 441: a reopened chat is
\* saved like a fresh upload
IdentifySaving(l, call, parsed, senders) ==
  /\ \E t \in now..(IF now < MaxClock THEN now + 1 ELSE now) :
       /\ now' = t
       /\ loads' = [loads EXCEPT
            ![l].pc = "saveChat",
            ![l].parsed = <<parsed>>,
            ![l].savedChat = <<NewSavedChat(call.file, call.fileName, call.chatName,
                                            parsed, senders, t)>>]
  /\ UNCHANGED <<currentChatId, currentChatName, loading>>

\* lines 441-461 and 472: a fresh upload goes on to `await saveChat`, its id
\* taken from the clock, which may have advanced since it was last read; a
\* reopened chat is done
Identify(l, call, parsed, senders) ==
  IF call.chatId = ""
  THEN /\ \E t \in now..(IF now < MaxClock THEN now + 1 ELSE now) :
            /\ now' = t
            /\ loads' = [loads EXCEPT
                 ![l].pc = "saveChat",
                 ![l].touched = @ \/ <<allMessages', allSenders', currentUser'>>
                                       # <<allMessages, allSenders, currentUser>>,
                 ![l].parsed = <<parsed>>,
                 ![l].savedChat = <<NewSavedChat(call.file, call.fileName, call.chatName,
                                                 parsed, senders, t)>>]
       /\ UNCHANGED <<currentChatId, currentChatName, loading>>
  ELSE /\ currentChatId' = call.chatId
       /\ currentChatName' = call.chatName
       /\ loading' = FALSE
       /\ loads' = [loads EXCEPT ![l] = Return("ok")]
       /\ now' = now

\* a variant of lines 429-439 that selects the saved username without asking
\* whether it is a participant
InstallSavedUsername(l, call, parsed, senders) ==
  /\ allMessages' = parsed
  /\ rowHeights' = <<>>
  /\ allSenders' = senders
  /\ currentUser' = call.savedUsername
  /\ Identify(l, call, parsed, senders)
  /\ alerted' = ""
  /\ logged' = ""
  /\ UNCHANGED <<savedUsername, search, savedChats, showMediaPanel, handles, db, deletes>>

\* lines 429-439: the parsed messages replace the displayed ones
Install(l, call, parsed, senders) ==
  /\ allMessages' = parsed
  /\ rowHeights' = <<>>
  /\ allSenders' = senders
  /\ currentUser' = IF call.savedUsername # <<>> /\ call.savedUsername \in Range(senders)
                    THEN call.savedUsername ELSE <<>>
  /\ Identify(l, call, parsed, senders)
  /\ alerted' = ""
  /\ logged' = ""
  /\ UNCHANGED <<savedUsername, search, savedChats, showMediaPanel, handles, db, deletes>>

\* lines 427-432
Parsed(l, call, parsed) ==
  \E senders \in {Senders(parsed)} : Install(l, call, parsed, senders)

\* line 426: chatFile.async('string') settles; it rejects when the data of the
\* entry is corrupt
StringSettled(l, call, chatFile) ==
  IF ~chatFile.ok
  THEN /\ Catch(l)
       /\ UNCHANGED <<session, savedUsername, search, savedChats, showMediaPanel,
                      rowHeights, handles, db, now, deletes>>
  ELSE \E parsed \in {parseMessages(chatFile.text, call.attachmentMap)} :
         Parsed(l, call, parsed)

String(l) ==
  /\ l \in 1..Len(loads)
  /\ loads[l].pc = "string"
  /\ StringSettled(l, loads[l],
                   Files[loads[l].file].files[Min(ChatFile(loads[l].file))])

\* line 454 with lines 52-61: saveChat settles; it rejects when the database
\* cannot be opened or the put request fails
SaveChat(l, ok) ==
  /\ l \in 1..Len(loads)
  /\ loads[l].pc = "saveChat"
  /\ IF ok
     THEN /\ db' = Put(db, loads[l].savedChat[1])
          /\ loads' = [loads EXCEPT ![l].pc = "loadSavedChats"]
          /\ alerted' = ""
          /\ logged' = ""
          /\ UNCHANGED loading
     ELSE /\ Catch(l)
          /\ db' = db
  /\ UNCHANGED <<session, savedUsername, search, savedChats, showMediaPanel,
                 rowHeights, handles, now, deletes>>

\* lines 273-280 with lines 63-72: getAllChats settles inside loadSavedChats
loadSavedChats(ok) ==
  IF ok
  THEN /\ savedChats' = ByTimestampDesc(GetAll(db))
       /\ logged' = ""
  ELSE /\ savedChats' = savedChats
       /\ logged' = "Error loading saved chats:"

\* lines 455-457 and 472: loadSavedChats settles
LoadSavedChats(l, ok) ==
  /\ l \in 1..Len(loads)
  /\ loads[l].pc = "loadSavedChats"
  /\ loadSavedChats(ok)
  /\ currentChatId' = loads[l].savedChat[1].id
  /\ currentChatName' = loads[l].savedChat[1].name
  /\ loading' = FALSE
  /\ loads' = [loads EXCEPT ![l] = Return("ok")]
  /\ alerted' = ""
  /\ UNCHANGED <<allMessages, allSenders, currentUser, savedUsername, search,
                 showMediaPanel, rowHeights, handles, db, now, deletes>>

(***************************************************************************)
(* Closing and deleting                                                    *)
(***************************************************************************)

\* the record of a handleBackToHome call: the number of processZipFile calls
\* started before it
Left == <<[handler |-> "handleBackToHome", started |-> Len(loads)]>>

\* a variant of BackToHome without the setCurrentSearchIndex(-1) of line 524
BackToHomeKeepingCursor ==
  /\ allMessages' = <<>>
  /\ currentChatId' = ""
  /\ currentChatName' = <<>>
  /\ currentUser' = <<>>
  /\ allSenders' = <<>>
  /\ searchTerm' = <<>>
  /\ searchResults' = <<>>
  /\ currentSearchIndex' = currentSearchIndex
  /\ handled' = Left
  /\ showMediaPanel' = FALSE
  /\ live' = live \ Range(blobUrls)
  /\ blobUrls' = <<>>

\* lines 516-528, the state it sets
BackToHome ==
  /\ allMessages' = <<>>
  /\ currentChatId' = ""
  /\ currentChatName' = <<>>
  /\ currentUser' = <<>>
  /\ allSenders' = <<>>
  /\ searchTerm' = <<>>
  /\ searchResults' = <<>>
  /\ currentSearchIndex' = -1
  /\ handled' = Left
  /\ showMediaPanel' = FALSE
  /\ live' = live \ Range(blobUrls)
  /\ blobUrls' = <<>>

\* the back button of the chat header (line 1046), rendered unless isEmptyState
handleBackToHome ==
  /\ ~isEmptyState
  /\ BackToHome
  /\ alerted' = ""
  /\ logged' = ""
  /\ UNCHANGED <<savedUsername, loading, savedChats, rowHeights, db, now, loads, deletes>>

\* a handleDeleteChat call that returned: its parameters are gone
Settled == [pc |-> "done", chatId |-> "", currentChatId |-> ""]

\* lines 500-504: the delete button of a chat item, confirmed, up to
\* `await deleteChat(chatId)`; currentChatId is the one of the render the
\* handler belongs to
handleDeleteChat(chat) ==
  /\ chat \in Range(savedChats)
  /\ Len(deletes) < MaxDeletes
  /\ deletes' = Append(deletes, [pc |-> "deleteChat", chatId |-> chat.id,
                                 currentChatId |-> currentChatId])
  /\ alerted' = ""
  /\ logged' = ""
  /\ UNCHANGED <<session, savedUsername, loading, search, savedChats, showMediaPanel,
                 rowHeights, handles, db, now, loads>>

\* lines 504 and 509-512 with lines 74-83: deleteChat settles
DeleteChat(d, ok) ==
  /\ d \in 1..Len(deletes)
  /\ deletes[d].pc = "deleteChat"
  /\ IF ok
     THEN /\ db' = Delete(db, deletes[d].chatId)
          /\ deletes' = [deletes EXCEPT ![d].pc = "loadSavedChats"]
          /\ alerted' = ""
          /\ logged' = ""
     ELSE /\ db' = db
          /\ deletes' = [deletes EXCEPT ![d] = Settled]
          /\ logged' = "Error deleting chat:"
          /\ alerted' = "Failed to delete chat"
  /\ UNCHANGED <<session, savedUsername, loading, search, savedChats, showMediaPanel,
                 rowHeights, handles, now, loads>>

\* a variant of DeleteReload without the test of line 506: every delete
\* ends with handleBackToHome
DeleteReloadClosing(d, ok) ==
  /\ d \in 1..Len(deletes)
  /\ deletes[d].pc = "loadSavedChats"
  /\ loadSavedChats(ok)
  /\ BackToHome
  /\ deletes' = [deletes EXCEPT ![d] = Settled]
  /\ alerted' = ""
  /\ UNCHANGED <<savedUsername, loading, rowHeights, db, now, loads>>

\* lines 505-508: loadSavedChats settles inside handleDeleteChat
DeleteReload(d, ok) ==
  /\ d \in 1..Len(deletes)
  /\ deletes[d].pc = "loadSavedChats"
  /\ loadSavedChats(ok)
  /\ IF deletes[d].currentChatId = deletes[d].chatId
     THEN BackToHome
     ELSE UNCHANGED <<session, search, showMediaPanel, handles>>
  /\ deletes' = [deletes EXCEPT ![d] = Settled]
  /\ alerted' = ""
  /\ UNCHANGED <<savedUsername, loading, rowHeights, db, now, loads>>

(***************************************************************************)
(* The initial state                                                       *)
(***************************************************************************)

\* The store outlives the page: at mount it holds the record that an upload of
\* the first archive left there in an earlier visit, at clock value 0, and the
\* loadSavedChats of the mount effect (line 246) has listed it.
EarlierUpload(parsed) ==
  NewSavedChat(1, Files[1].name, <<>>, parsed, Senders(parsed), 0)

EarlierChat == EarlierUpload(parseMessages(Transcript1, <<>>))

Init ==
  /\ allMessages = <<>>
  /\ allSenders = <<>>
  /\ currentUser = <<>>
  /\ savedUsername = UserName
  /\ loading = FALSE
  /\ searchTerm = <<>>
  /\ searchResults = <<>>
  /\ currentSearchIndex = -1
  /\ savedChats = <<EarlierChat>>
  /\ currentChatId = ""
  /\ currentChatName = <<>>
  /\ showMediaPanel = FALSE
  /\ rowHeights = <<>>
  /\ blobUrls = <<>>
  /\ live = {}
  /\ db = Put(<<>>, EarlierChat)
  /\ now = 1
  /\ loads = <<>>
  /\ deletes = <<>>
  /\ alerted = ""
  /\ logged = ""
  /\ handled = Null

(***************************************************************************)
(* The specification                                                       *)
(***************************************************************************)

Next ==
  \/ \E f \in FileIds : handleFile(f)
  \/ \E f \in FileIds : handleDrop(f)
  \/ \E chat \in Range(savedChats) : loadSavedChat(chat)
  \/ \E l \in 1..MaxLoads : LoadAsync(l)
  \/ \E l \in 1..MaxLoads : Blob(l)
  \/ \E l \in 1..MaxLoads, how \in ThumbnailOutcomes : Thumbnail(l, how)
  \/ \E l \in 1..MaxLoads : String(l)
  \/ \E l \in 1..MaxLoads, ok \in BOOLEAN : SaveChat(l, ok)
  \/ \E l \in 1..MaxLoads, ok \in BOOLEAN : LoadSavedChats(l, ok)
  \/ handleBackToHome
  \/ \E chat \in Range(savedChats) : handleDeleteChat(chat)
  \/ \E d \in 1..MaxDeletes, ok \in BOOLEAN : DeleteChat(d, ok)
  \/ \E d \in 1..MaxDeletes, ok \in BOOLEAN : DeleteReload(d, ok)

Spec == Init /\ [][Next]_vars

(***************************************************************************)
(* The store helpers on their own: saveChat, getAllChats and deleteChat    *)
(* called with any record and any id, in any order. loads holds the        *)
(* saveChat call that settled last and deletes the deleteChat call that    *)
(* settled last; the one that is empty tells which helper ran last.        *)
(***************************************************************************)

\* the records the helpers are called with: uploads of two archives at each
\* clock value up to MaxStoreClock, so that two of them share each id; the ids
\* deleteChat is called with are those of all clock values
MaxStoreClock == 1

StoreChats ==
  {NewSavedChat(f, Files[f].name, <<>>, <<>>, <<>>, t) : f \in {1, 4}, t \in 0..MaxStoreClock}

StoreIds == {ToString(t) : t \in 0..MaxClock}

\* lines 52-61: saveChat(chat) settles
saveChat(chat, ok) ==
  /\ IF ok
     THEN /\ db' = Put(db, chat)
          /\ loads' = <<[pc |-> "done", savedChat |-> <<chat>>, outcome |-> "ok"]>>
     ELSE /\ db' = db
          /\ loads' = <<[pc |-> "done", savedChat |-> <<chat>>, outcome |-> "error"]>>
  /\ deletes' = <<>>
  /\ UNCHANGED <<session, savedUsername, loading, search, savedChats, showMediaPanel,
                 rowHeights, handles, now, alerted, logged>>

\* lines 74-83: deleteChat(id) settles
deleteChat(id, ok) ==
  /\ IF ok
     THEN /\ db' = Delete(db, id)
          /\ deletes' = <<[pc |-> "done", chatId |-> id, outcome |-> "ok"]>>
     ELSE /\ db' = db
          /\ deletes' = <<[pc |-> "done", chatId |-> id, outcome |-> "error"]>>
  /\ loads' = <<>>
  /\ UNCHANGED <<session, savedUsername, loading, search, savedChats, showMediaPanel,
                 rowHeights, handles, now, alerted, logged>>

\* lines 63-72 inside lines 273-280: getAllChats settles and the list is set
getAllChats(ok) ==
  /\ loadSavedChats(ok)
  /\ UNCHANGED <<session, savedUsername, loading, search, showMediaPanel, rowHeights,
                 handles, db, now, loads, deletes, alerted>>

\* the object store as onupgradeneeded creates it (lines 43-48): empty
StoreInit ==
  /\ allMessages = <<>>
  /\ allSenders = <<>>
  /\ currentUser = <<>>
  /\ savedUsername = UserName
  /\ loading = FALSE
  /\ searchTerm = <<>>
  /\ searchResults = <<>>
  /\ currentSearchIndex = -1
  /\ savedChats = <<>>
  /\ currentChatId = ""
  /\ currentChatName = <<>>
  /\ showMediaPanel = FALSE
  /\ rowHeights = <<>>
  /\ blobUrls = <<>>
  /\ live = {}
  /\ db = <<>>
  /\ now = 0
  /\ loads = <<>>
  /\ deletes = <<>>
  /\ alerted = ""
  /\ logged = ""
  /\ handled = Null

StoreNext ==
  \/ \E chat \in StoreChats, ok \in BOOLEAN : saveChat(chat, ok)
  \/ \E id \in StoreIds, ok \in BOOLEAN : deleteChat(id, ok)
  \/ \E ok \in BOOLEAN : getAllChats(ok)

SpecStore == StoreInit /\ [][StoreNext]_vars

(***************************************************************************)
(* parseMessages on its own: a processZipFile call that has decoded the    *)
(* transcript (line 426) holds it in its local text, beside the            *)
(* attachmentMap of the loop; the step runs lines 427-439.                 *)
(***************************************************************************)

\* the pieces the transcripts are made of: two headers, a word, a line end
\* after a space, the three kinds of marker (p.jpg is the file of the map,
\* x.jpg is in no map), two lines, and a header with a space before its colon
Fragments ==
  <<<<"[", "1", "/", "1", ",", " ", "9", ":", "0", "0", "]", " ", "A", "l", ":", " ">>,
    <<"[", "2", "/", "1", ",", " ", "9", ":", "0", "5", "]", " ", "B", "o", ":">>,
    <<"h", "i">>,
    <<" ", "\n">>,
    <<"<", "a", "t", "t", "a", "c", "h", "e", "d", ":", " ", "p", ".", "j", "p", "g", ">">>,
    <<"<", "a", "t", "t", "a", "c", "h", "e", "d", ":", " ", "x", ".", "j", "p", "g", ">">>,
    <<"<", "M", "e", "d", "i", "a", " ", "o", "m", "i", "t", "t", "e", "d", ">">>,
    <<"a", "\n", "b">>,
    <<"[", "3", "/", "1", ",", " ", "9", ":", "1", "0", "]", " ", "A", "l", " ", ":">>>>

MaxParts == 3

RECURSIVE Join(_)
Join(parts) == IF parts = <<>> THEN <<>> ELSE Fragments[Head(parts)] \o Join(Tail(parts))

\* the transcripts of at most MaxParts pieces
Transcripts ==
  {Join(parts) : parts \in UNION {[1..n -> 1..Len(Fragments)] : n \in 0..MaxParts}}

\* the map of an archive without media and of one that holds p.jpg
AttachmentMaps ==
  {<<>>,
   MapSet(<<>>, NewAttachment([name |-> <<"p", ".", "j", "p", "g">>, size |-> 3], Url(1, 1)))}

ParseInit ==
  /\ allMessages = <<>>
  /\ allSenders = <<>>
  /\ currentUser = <<>>
  /\ savedUsername = UserName
  /\ loading = TRUE
  /\ searchTerm = <<>>
  /\ searchResults = <<>>
  /\ currentSearchIndex = -1
  /\ savedChats = <<>>
  /\ currentChatId = ""
  /\ currentChatName = <<>>
  /\ showMediaPanel = FALSE
  /\ rowHeights = <<>>
  /\ blobUrls = <<>>
  /\ live = {}
  /\ db = <<>>
  /\ now = 0
  /\ \E text \in Transcripts, attachmentMap \in AttachmentMaps :
       loads = <<[pc |-> "parse", text |-> text, attachmentMap |-> attachmentMap,
                  savedUsername |-> UserName]>>
  /\ deletes = <<>>
  /\ alerted = ""
  /\ logged = ""
  /\ handled = Null

\* lines 427-439: the transcript is parsed and the messages, the senders and
\* the current user are set
ParseTranscript ==
  /\ loads[1].pc = "parse"
  /\ \E parsed \in {parseMessages(loads[1].text, loads[1].attachmentMap)} :
       \E senders \in {Senders(parsed)} :
         /\ allMessages' = parsed
         /\ rowHeights' = <<>>
         /\ allSenders' = senders
         /\ currentUser' = IF loads[1].savedUsername # <<>>
                              /\ loads[1].savedUsername \in Range(senders)
                           THEN loads[1].savedUsername ELSE <<>>
  /\ loads' = [loads EXCEPT ![1].pc = "parsed"]
  /\ UNCHANGED <<savedUsername, loading, search, savedChats, currentChatId,
                 currentChatName, showMediaPanel, handles, db, now, deletes,
                 alerted, logged>>

ParseNext == ParseTranscript

SpecParse == ParseInit /\ [][ParseNext]_vars

(***************************************************************************)
(* The search of the chat view on its own: the input sets searchTerm       *)
(* (line 1084), Enter runs performSearch (line 1085) and the two buttons   *)
(* move the cursor (lines 1093, 1099), over the messages of a session.     *)
(***************************************************************************)

\* a variant of SearchMatches that compares without lower-casing
SearchMatchesCaseSensitive(msg, term) ==
  \/ includes(msg.text, term)
  \/ includes(msg.sender, term)

\* lines 539-542: the message matches the term
SearchMatches(msg, term) ==
  \/ includes(toLowerCase(msg.text), toLowerCase(term))
  \/ includes(toLowerCase(msg.sender), toLowerCase(term))

\* lines 537-545: the indices (from 0) of the matching messages, in the order
\* forEach visits them
Results(messages, term) ==
  Pick([k \in 1..Len(messages) |-> k - 1],
       {k \in 1..Len(messages) : SearchMatches(messages[k], term)})

\* the record of a handler that ran and of the call it made on listRef
Ran(handler, call) ==
  <<[handler |-> handler, searchResults |-> searchResults,
     currentSearchIndex |-> currentSearchIndex, listRef |-> call]>>

\* lines 552-556: the list is mounted unless the media panel is shown
\* (line 1139); the call made on it, Null when there is none
scrollToMessage(index) ==
  IF showMediaPanel THEN Null ELSE <<[method |-> "scrollToItem", index |-> index]>>

\* line 1084: onChange of the search input
setSearchTerm(value) ==
  /\ searchTerm' = value
  /\ handled' = Ran("setSearchTerm", Null)
  /\ UNCHANGED <<session, savedUsername, loading, searchResults, currentSearchIndex,
                 savedChats, showMediaPanel, rowHeights, handles, db, now, loads,
                 deletes, alerted, logged>>

\* a variant of performSearch without the early return of lines 531-535
performSearchUnguarded ==
  /\ \E results \in {Results(allMessages, searchTerm)} :
       /\ searchResults' = results
       /\ currentSearchIndex' = IF Len(results) > 0 THEN 0 ELSE -1
       /\ handled' = Ran("performSearch",
                         IF Len(results) > 0 THEN scrollToMessage(results[1]) ELSE Null)
  /\ UNCHANGED <<session, savedUsername, loading, searchTerm, savedChats, showMediaPanel,
                 rowHeights, handles, db, now, loads, deletes, alerted, logged>>

\* a variant of performSearch that keeps a cursor that is still in range
performSearchKeepingCursor ==
  /\ IF trim(searchTerm) = <<>>
     THEN /\ searchResults' = <<>>
          /\ currentSearchIndex' = -1
          /\ handled' = Ran("performSearch", Null)
     ELSE \E results \in {Results(allMessages, searchTerm)} :
            /\ searchResults' = results
            /\ currentSearchIndex' =
                 IF Len(results) = 0 THEN -1
                 ELSE IF currentSearchIndex \in 0..(Len(results) - 1)
                      THEN currentSearchIndex ELSE 0
            /\ handled' = Ran("performSearch",
                              IF Len(results) > 0 THEN scrollToMessage(results[1])
                              ELSE Null)
  /\ UNCHANGED <<session, savedUsername, loading, searchTerm, savedChats, showMediaPanel,
                 rowHeights, handles, db, now, loads, deletes, alerted, logged>>

\* lines 530-550
performSearch ==
  /\ IF trim(searchTerm) = <<>>
     THEN /\ searchResults' = <<>>
          /\ currentSearchIndex' = -1
          /\ handled' = Ran("performSearch", Null)
     ELSE \E results \in {Results(allMessages, searchTerm)} :
            /\ searchResults' = results
            /\ currentSearchIndex' = IF Len(results) > 0 THEN 0 ELSE -1
            /\ handled' = Ran("performSearch",
                              IF Len(results) > 0 THEN scrollToMessage(results[1])
                              ELSE Null)
  /\ UNCHANGED <<session, savedUsername, loading, searchTerm, savedChats, showMediaPanel,
                 rowHeights, handles, db, now, loads, deletes, alerted, logged>>

\* a variant of nextIndex that stops at the last result
nextIndexClamped(cursor, results) ==
  IF cursor + 1 < Len(results) THEN cursor + 1 ELSE Len(results) - 1

\* line 560
nextIndex(cursor, results) == (cursor + 1) % Len(results)

\* lines 567-569
prevIndex(cursor, results) == (cursor - 1 + Len(results)) % Len(results)

\* a variant of nextSearchResult without the return of line 559, an empty
\* result sequence treated as one of a single result
nextSearchResultUnguarded ==
  /\ \E index \in {IF Len(searchResults) = 0 THEN 0
                    ELSE nextIndex(currentSearchIndex, searchResults)} :
       /\ currentSearchIndex' = index
       /\ handled' = Ran("nextSearchResult", scrollToMessage(index))
  /\ UNCHANGED <<session, savedUsername, loading, searchTerm, searchResults, savedChats,
                 showMediaPanel, rowHeights, handles, db, now, loads, deletes, alerted,
                 logged>>

\* lines 558-563
nextSearchResult ==
  /\ IF Len(searchResults) = 0
     THEN /\ currentSearchIndex' = currentSearchIndex
          /\ handled' = Ran("nextSearchResult", Null)
     ELSE \E index \in {nextIndex(currentSearchIndex, searchResults)} :
            /\ currentSearchIndex' = index
            /\ handled' = Ran("nextSearchResult", scrollToMessage(searchResults[index + 1]))
  /\ UNCHANGED <<session, savedUsername, loading, searchTerm, searchResults, savedChats,
                 showMediaPanel, rowHeights, handles, db, now, loads, deletes, alerted,
                 logged>>

\* lines 565-572
prevSearchResult ==
  /\ IF Len(searchResults) = 0
     THEN /\ currentSearchIndex' = currentSearchIndex
          /\ handled' = Ran("prevSearchResult", Null)
     ELSE \E index \in {prevIndex(currentSearchIndex, searchResults)} :
            /\ currentSearchIndex' = index
            /\ handled' = Ran("prevSearchResult", scrollToMessage(searchResults[index + 1]))
  /\ UNCHANGED <<session, savedUsername, loading, searchTerm, searchResults, savedChats,
                 showMediaPanel, rowHeights, handles, db, now, loads, deletes, alerted,
                 logged>>

\* the messages of the sessions searched, and the terms typed: empty, blank,
\* in both cases, with a space, and one that occurs nowhere
SearchMessages ==
  {[date |-> <<"1", "/", "1">>, time |-> <<"9", ":", "0", "0">>, sender |-> <<"A", "l">>, text |-> <<"h", "i">>],
   [date |-> <<"1", "/", "1">>, time |-> <<"9", ":", "0", "0">>, sender |-> <<"B", "o">>, text |-> <<"H", "i", " ", "a", "l", "l">>],
   [date |-> <<"1", "/", "1">>, time |-> <<"9", ":", "0", "0">>, sender |-> <<"a", "l">>, text |-> <<>>],
   [date |-> <<"1", "/", "1">>, time |-> <<"9", ":", "0", "0">>, sender |-> <<"B", "o">>, text |-> <<"B", " ", "A">>]}

SearchTerms ==
  {<<>>, <<" ">>, <<"h", "i">>, <<"H", "I">>, <<"a", "l">>, <<"A", "L">>, <<"b", " ">>, <<"x">>}

MaxMessages == 3

\* a session is displayed (lines 429-461 have run), nothing is searched yet
SearchInit ==
  /\ allMessages \in UNION {[1..n -> SearchMessages] : n \in 0..MaxMessages}
  /\ allSenders = Senders(allMessages)
  /\ currentUser = <<>>
  /\ savedUsername = <<>>
  /\ loading = FALSE
  /\ searchTerm = <<>>
  /\ searchResults = <<>>
  /\ currentSearchIndex = -1
  /\ savedChats = <<>>
  /\ currentChatId = "0"
  /\ currentChatName = <<"A", "l">>
  /\ showMediaPanel = FALSE
  /\ rowHeights = <<>>
  /\ blobUrls = <<>>
  /\ live = {}
  /\ db = <<>>
  /\ now = 0
  /\ loads = <<>>
  /\ deletes = <<>>
  /\ alerted = ""
  /\ logged = ""
  /\ handled = Null

SearchNext ==
  \/ \E value \in SearchTerms : setSearchTerm(value)
  \/ performSearch
  \/ nextSearchResult
  \/ prevSearchResult

SpecSearch == SearchInit /\ [][SearchNext]_vars

(***************************************************************************)
(* getAttachmentType on its own: a processZipFile call in the loop of      *)
(* lines 392-424 holds the name of the entry in its local filename; the    *)
(* step runs line 395.                                                     *)
(***************************************************************************)

\* the names of the entries: a stem (also empty, with the word sticker in
\* either case, with a dot, with an image extension inside), then a dot or
\* none, then a last segment (the listed extensions, some in upper case, and
\* others)
Stems ==
  {<<>>, <<"a">>, <<"m", "y", " ", "s", "t", "i", "c", "k", "e", "r">>, <<"S", "T", "I", "C", "K", "E", "R", "-", "1">>, <<"a", ".", "b">>, <<"x", ".", "j", "p", "g">>}

LastSegments ==
  {<<"j", "p", "g">>, <<"J", "P", "G">>, <<"j", "p", "e", "g">>, <<"p", "n", "g">>, <<"g", "i", "f">>,
   <<"w", "e", "b", "p">>, <<"M", "p", "4">>, <<"a", "v", "i">>, <<"m", "o", "v">>, <<"w", "e", "b", "m">>,
   <<"m", "k", "v">>, <<"m", "p", "3">>, <<"w", "a", "v">>, <<"O", "G", "G">>, <<"m", "4", "a">>,
   <<"p", "d", "f">>, <<>>, <<"j", "p", "g", "2">>, <<"s", "t", "i", "c", "k", "e", "r">>}

FileNames ==
  {stem \o dot \o last : stem \in Stems, dot \in {<<>>, <<".">>}, last \in LastSegments}

ClassifyInit ==
  /\ allMessages = <<>>
  /\ allSenders = <<>>
  /\ currentUser = <<>>
  /\ savedUsername = UserName
  /\ loading = TRUE
  /\ searchTerm = <<>>
  /\ searchResults = <<>>
  /\ currentSearchIndex = -1
  /\ savedChats = <<>>
  /\ currentChatId = ""
  /\ currentChatName = <<>>
  /\ showMediaPanel = FALSE
  /\ rowHeights = <<>>
  /\ blobUrls = <<>>
  /\ live = {}
  /\ db = <<>>
  /\ now = 0
  /\ \E filename \in FileNames : loads = <<[pc |-> "classify", filename |-> filename]>>
  /\ deletes = <<>>
  /\ alerted = ""
  /\ logged = ""
  /\ handled = Null

\* line 395: const type = getAttachmentType(filename)
Classify ==
  /\ loads[1].pc = "classify"
  /\ loads' = <<[pc |-> "classified", filename |-> loads[1].filename,
                 type |-> getAttachmentType(loads[1].filename)]>>
  /\ UNCHANGED <<session, savedUsername, loading, search, savedChats, showMediaPanel,
                 rowHeights, handles, db, now, deletes, alerted, logged>>

ClassifyNext == Classify

SpecClassify == ClassifyInit /\ [][ClassifyNext]_vars

(***************************************************************************)
(* The chat view: the rows of the list report their heights while archives *)
(* are loaded, reopened and closed.                                        *)
(***************************************************************************)

\* line 577: rowHeights.current[index] || 120
getRowHeight(index) ==
  IF index \in DOMAIN rowHeights /\ rowHeights[index] # 0
  THEN rowHeights[index] ELSE 120

\* rowHeights.current[index]: no value (undefined) or one
Stored(index) ==
  IF index \in DOMAIN rowHeights THEN <<rowHeights[index]>> ELSE <<>>

\* line 582: listRef.current?.resetAfterIndex(index)
resetAfterIndex(index) ==
  IF showMediaPanel THEN Null ELSE <<[method |-> "resetAfterIndex", index |-> index]>>

\* the record of a setRowHeight call: its arguments, the height it found
\* stored and the call it made on listRef
Reported(index, size, call) ==
  <<[handler |-> "setRowHeight", index |-> index, size |-> size,
     stored |-> Stored(index), listRef |-> call]>>

\* a variant of setRowHeight without the comparison of line 580
setRowHeightAlways(index, size) ==
  /\ rowHeights' = [i \in DOMAIN rowHeights \cup {index} |->
                      IF i = index THEN size ELSE rowHeights[i]]
  /\ handled' = Reported(index, size, resetAfterIndex(index))
  /\ UNCHANGED <<session, savedUsername, loading, searchTerm, searchResults,
                 currentSearchIndex, savedChats, showMediaPanel, handles, db, now,
                 loads, deletes, alerted, logged>>

\* lines 579-585
setRowHeight(index, size) ==
  /\ IF Stored(index) # <<size>>
     THEN /\ rowHeights' = [i \in DOMAIN rowHeights \cup {index} |->
                              IF i = index THEN size ELSE rowHeights[i]]
          /\ handled' = Reported(index, size, resetAfterIndex(index))
     ELSE /\ rowHeights' = rowHeights
          /\ handled' = Reported(index, size, Null)
  /\ UNCHANGED <<session, savedUsername, loading, searchTerm, searchResults,
                 currentSearchIndex, savedChats, showMediaPanel, handles, db, now,
                 loads, deletes, alerted, logged>>

\* line 712: the row of msg is drawn as sent when self is the user chosen in
\* the selector of line 1122
isSent(msg, self) == self # <<>> /\ msg.sender = self

\* lines 716-728: a mounted row measures itself, at mount and when its media
\* has loaded, and reports the height of its element plus 16; rows are
\* mounted by the list (line 1139) for the indices below allMessages.length
MessageRow(index, height) ==
  /\ ~showMediaPanel
  /\ index \in 0..(Len(allMessages) - 1)
  /\ setRowHeight(index, height + 16)

\* the heights that the elements of the rows take
Heights == {24, 40}

\* the archive uploaded in the view
ViewFiles == {1}

\* the rows report while archives are uploaded, reopened and closed; the
\* thumbnails resolve and the list of saved chats is read without failure
RowsNext ==
  \/ \E f \in ViewFiles : handleFile(f)
  \/ \E chat \in Range(savedChats) : loadSavedChat(chat)
  \/ \E l \in 1..MaxLoads : LoadAsync(l)
  \/ \E l \in 1..MaxLoads : Blob(l)
  \/ \E l \in 1..MaxLoads : Thumbnail(l, "resolved")
  \/ \E l \in 1..MaxLoads : String(l)
  \/ \E l \in 1..MaxLoads, ok \in BOOLEAN : SaveChat(l, ok)
  \/ \E l \in 1..MaxLoads : LoadSavedChats(l, TRUE)
  \/ handleBackToHome
  \/ \E index \in 0..(Len(allMessages) - 1), height \in Heights : MessageRow(index, height)

SpecRows == Init /\ [][RowsNext]_vars

\* lines 1116-1130: the selector of the chat view, shown when there are
\* participants; its options are the empty value and the participants
setCurrentUser(value) ==
  /\ ~isEmptyState
  /\ allSenders # <<>>
  /\ value \in {<<>>} \cup Range(allSenders)
  /\ currentUser' = value
  /\ UNCHANGED <<allMessages, allSenders, currentChatId, currentChatName, savedUsername,
                 loading, search, savedChats, showMediaPanel, rowHeights, handles, db,
                 now, loads, deletes, alerted, logged>>

\* the names that localStorage may hold at mount: a participant of the first
\* archive, somebody who is in no archive, and nothing
SavedUsernames == {UserName, <<"C", "y">>, <<>>}

\* the archives uploaded while the selector is used
UserFiles == {1, 2}

\* lines 245-253: the state after mount, for each of the saved names
UserInit ==
  /\ allMessages = <<>>
  /\ allSenders = <<>>
  /\ currentUser = <<>>
  /\ savedUsername \in SavedUsernames
  /\ loading = FALSE
  /\ searchTerm = <<>>
  /\ searchResults = <<>>
  /\ currentSearchIndex = -1
  /\ savedChats = <<EarlierChat>>
  /\ currentChatId = ""
  /\ currentChatName = <<>>
  /\ showMediaPanel = FALSE
  /\ rowHeights = <<>>
  /\ blobUrls = <<>>
  /\ live = {}
  /\ db = Put(<<>>, EarlierChat)
  /\ now = 1
  /\ loads = <<>>
  /\ deletes = <<>>
  /\ alerted = ""
  /\ logged = ""
  /\ handled = Null

\* the selector is used while archives are uploaded, reopened and closed;
\* the thumbnails resolve and the list of saved chats is read without failure
UserNext ==
  \/ \E f \in UserFiles : handleFile(f)
  \/ \E chat \in Range(savedChats) : loadSavedChat(chat)
  \/ \E l \in 1..MaxLoads : LoadAsync(l)
  \/ \E l \in 1..MaxLoads : Blob(l)
  \/ \E l \in 1..MaxLoads : Thumbnail(l, "resolved")
  \/ \E l \in 1..MaxLoads : String(l)
  \/ \E l \in 1..MaxLoads, ok \in BOOLEAN : SaveChat(l, ok)
  \/ \E l \in 1..MaxLoads : LoadSavedChats(l, TRUE)
  \/ handleBackToHome
  \/ \E value \in {<<>>} \cup Range(allSenders) : setCurrentUser(value)

SpecUser == UserInit /\ [][UserNext]_vars

\* the messages of the session displayed at first, and the term typed
SessionMessages ==
  <<[date |-> <<"1", "/", "1">>, time |-> <<"9", ":", "0", "0">>, sender |-> <<"A", "l">>, text |-> <<"h", "i">>],
    [date |-> <<"1", "/", "1">>, time |-> <<"9", ":", "0", "1">>, sender |-> <<"B", "o">>, text |-> <<"H", "i", " ", "a", "l", "l">>],
    [date |-> <<"1", "/", "1">>, time |-> <<"9", ":", "0", "2">>, sender |-> <<"B", "o">>, text |-> <<"B", " ", "A">>]>>

SessionTerms == {<<"a">>}

\* a session of three messages without media is displayed, which the store
\* does not hold (lines 429-439 have run and the saveChat of line 454 was
\* rejected); the store holds the record of the earlier upload
SessionInit ==
  /\ allMessages = SessionMessages
  /\ allSenders = Senders(allMessages)
  /\ currentUser = <<>>
  /\ savedUsername = UserName
  /\ loading = FALSE
  /\ searchTerm = <<>>
  /\ searchResults = <<>>
  /\ currentSearchIndex = -1
  /\ savedChats = <<EarlierChat>>
  /\ currentChatId = ""
  /\ currentChatName = <<>>
  /\ showMediaPanel = FALSE
  /\ rowHeights = <<>>
  /\ blobUrls = <<>>
  /\ live = {}
  /\ db = Put(<<>>, EarlierChat)
  /\ now = 1
  /\ loads = <<>>
  /\ deletes = <<>>
  /\ alerted = ""
  /\ logged = ""
  /\ handled = Null

\* the search bar is used while saved chats are reopened, closed and
\* deleted; the thumbnails resolve and the store does not fail
SessionNext ==
  \/ \E chat \in Range(savedChats) : loadSavedChat(chat)
  \/ \E l \in 1..MaxLoads : LoadAsync(l)
  \/ \E l \in 1..MaxLoads : Blob(l)
  \/ \E l \in 1..MaxLoads : Thumbnail(l, "resolved")
  \/ \E l \in 1..MaxLoads : String(l)
  \/ handleBackToHome
  \/ \E chat \in Range(savedChats) : handleDeleteChat(chat)
  \/ \E d \in 1..MaxDeletes : DeleteChat(d, TRUE)
  \/ \E d \in 1..MaxDeletes : DeleteReload(d, TRUE)
  \/ \E value \in SessionTerms : setSearchTerm(value)
  \/ performSearch
  \/ nextSearchResult
  \/ prevSearchResult

SpecSession == SessionInit /\ [][SessionNext]_vars

(***************************************************************************)
(* The media panel: a render of lines 1148-1213 with the messages of the   *)
(* session and the filter chosen; the render call is held in loads, with   *)
(* its mediaFilter and, once it has run, the items of the media grid.      *)
(***************************************************************************)

\* Array.prototype.filter: the elements of seq at the positions in keep, in
\* the order of seq
RECURSIVE filter(_, _)
filter(seq, keep) ==
  IF seq = <<>> THEN <<>>
  ELSE filter(SubSeq(seq, 1, Len(seq) - 1), keep)
         \o (IF Len(seq) \in keep THEN <<seq[Len(seq)]>> ELSE <<>>)

\* lines 587-589
getMediaMessages ==
  filter(allMessages, {k \in 1..Len(allMessages) : "attachment" \in DOMAIN allMessages[k]})

\* mediaMessages.filter by the types given
OfTypes(mediaMessages, types) ==
  filter(mediaMessages,
         {k \in 1..Len(mediaMessages) : mediaMessages[k].attachment.type \in types})

\* lines 591-612
getFilteredMedia(mediaFilter) ==
  IF mediaFilter = "all" THEN getMediaMessages
  ELSE IF mediaFilter = "images" THEN OfTypes(getMediaMessages, {"image", "sticker"})
  ELSE IF mediaFilter = "videos" THEN OfTypes(getMediaMessages, {"video"})
  ELSE IF mediaFilter = "documents" THEN OfTypes(getMediaMessages, {"document", "audio"})
  ELSE getMediaMessages

\* the values that the filter buttons set (lines 1154-1204)
MediaFilters == {"all", "images", "videos", "documents"}

\* the messages of the sessions rendered: of four days, with and without
\* attachments of every type
MediaMessages ==
  <<[date |-> <<"1", "/", "1">>, time |-> <<"9", ":", "0", "0">>, sender |-> <<"A", "l">>, text |-> <<"h", "i">>],
    [date |-> <<"1", "/", "1">>, time |-> <<"9", ":", "0", "1">>, sender |-> <<"A", "l">>, text |-> <<>>,
    attachment |-> [name |-> "a.jpg", type |-> "image", blobUrl |-> <<1, 1>>, size |-> 1]],
    [date |-> <<"2", "/", "2">>, time |-> <<"9", ":", "0", "0">>, sender |-> <<"B", "o">>, text |-> <<>>,
    attachment |-> [name |-> "b.mp4", type |-> "video", blobUrl |-> <<1, 2>>, size |-> 1]],
    [date |-> <<"2", "/", "2">>, time |-> <<"9", ":", "3", "0">>, sender |-> <<"B", "o">>, text |-> <<"o", "k">>,
    attachment |-> [name |-> "c.pdf", type |-> "document", blobUrl |-> <<1, 3>>, size |-> 1]],
    [date |-> <<"3", "/", "3">>, time |-> <<"8", ":", "0", "0">>, sender |-> <<"A", "l">>, text |-> <<>>,
    attachment |-> [name |-> "d.mp3", type |-> "audio", blobUrl |-> <<1, 4>>, size |-> 1]],
    [date |-> <<"3", "/", "3">>, time |-> <<"8", ":", "1", "0">>, sender |-> <<"B", "o">>, text |-> <<>>,
    attachment |-> [name |-> "sticker.x", type |-> "sticker", blobUrl |-> <<1, 5>>, size |-> 1]],
    [date |-> <<"4", "/", "4">>, time |-> <<"7", ":", "0", "0">>, sender |-> <<"A", "l">>, text |-> <<>>,
    attachment |-> [name |-> "e.png", type |-> "image", blobUrl |-> <<1, 6>>, size |-> 1]]>>

MaxMedia == 3

\* a session is displayed (lines 429-461 have run) and the media panel is open
MediaInit ==
  /\ allMessages \in UNION {[1..n -> Range(MediaMessages)] : n \in 0..MaxMedia}
  /\ allSenders = Senders(allMessages)
  /\ currentUser = <<>>
  /\ savedUsername = <<>>
  /\ loading = FALSE
  /\ searchTerm = <<>>
  /\ searchResults = <<>>
  /\ currentSearchIndex = -1
  /\ savedChats = <<>>
  /\ currentChatId = "0"
  /\ currentChatName = <<"A", "l">>
  /\ showMediaPanel = TRUE
  /\ rowHeights = <<>>
  /\ blobUrls = <<>>
  /\ live = {}
  /\ db = <<>>
  /\ now = 0
  /\ \E mediaFilter \in MediaFilters : loads = <<[pc |-> "render", mediaFilter |-> mediaFilter]>>
  /\ deletes = <<>>
  /\ alerted = ""
  /\ logged = ""
  /\ handled = Null

\* lines 1207-1211: getFilteredMedia().map(...) gives the items of the grid
MediaGrid ==
  /\ showMediaPanel
  /\ loads[1].pc = "render"
  /\ loads' = <<[pc |-> "rendered", mediaFilter |-> loads[1].mediaFilter,
                 items |-> getFilteredMedia(loads[1].mediaFilter)]>>
  /\ UNCHANGED <<session, savedUsername, loading, search, savedChats, showMediaPanel,
                 rowHeights, handles, db, now, deletes, alerted, logged>>

\* lines 1154-1204: a filter button is clicked, the panel renders again
setMediaFilter(mediaFilter) ==
  /\ showMediaPanel
  /\ loads[1].pc = "rendered"
  /\ loads' = <<[pc |-> "render", mediaFilter |-> mediaFilter]>>
  /\ UNCHANGED <<session, savedUsername, loading, search, savedChats, showMediaPanel,
                 rowHeights, handles, db, now, deletes, alerted, logged>>

MediaNext ==
  \/ MediaGrid
  \/ \E mediaFilter \in MediaFilters : setMediaFilter(mediaFilter)

SpecMedia == MediaInit /\ [][MediaNext]_vars

(***************************************************************************)
(* Properties of the load pipeline                                         *)
(***************************************************************************)

Calls == 1..Len(loads)

\* the entry that call l is extracting
Entry(l) == Files[loads[l].file].files[loads[l].pos]

\* the displayed session and the set of live handles
Displayed ==
  [allMessages |-> allMessages, allSenders |-> allSenders, currentUser |-> currentUser,
   currentChatId |-> currentChatId, currentChatName |-> currentChatName, live |-> live]

\* call l settles in this step
Settles(l) == loads[l].pc # "done" /\ loads'[l].pc = "done"

\* an archive that JSZip reads and that has no _chat.txt
NoTranscript(f) == f \in FileIds /\ Files[f].zip /\ ChatFile(f) = {}

\* the positions of the messages of ms that have an attachment
WithAttachment(ms) == {k \in 1..Len(ms) : "attachment" \in DOMAIN ms[k]}

\* the handles that the attachments of the messages ms refer to
Referenced(ms) ==
  {ms[k].attachment.blobUrl : k \in WithAttachment(ms)}
    \cup {ms[k].attachment.thumbnailUrl :
            k \in {j \in WithAttachment(ms) : "thumbnailUrl" \in DOMAIN ms[j].attachment}}

\* C1: a call that starts while a session is displayed and fails (it ends in
\* the catch or at the return for a missing transcript) has changed none of
\* allMessages, allSenders, currentUser, currentChatId, currentChatName and
\* the set of live handles in any of its steps: as far as the call goes,
\* they are what they were when it started.
C1_FailedLoadLeavesSession ==
  [][\A l \in Calls :
       (/\ Settles(l)
        /\ loads'[l].outcome # "ok"
        /\ loads[l].hadSession)
         => ~loads[l].touched /\ Displayed' = Displayed]_vars

\* C2: no step of a call on an archive without _chat.txt changes allMessages,
\* currentChatId, currentChatName or the tracked handles, revokes a handle or
\* writes to the store; the call ends at the return for the missing
\* transcript with the alert shown and loading false.
C2_MissingTranscriptInstallsNothing ==
  [][/\ \A l \in Calls :
          (NoTranscript(loads[l].file) /\ loads'[l] # loads[l])
            => /\ loads'[l].outcome = "noChat"
               /\ alerted' = "No _chat.txt file found in zip!"
               /\ ~loading'
               /\ UNCHANGED <<allMessages, currentChatId, currentChatName, blobUrls,
                              live, db>>
     /\ (Len(loads') > Len(loads) /\ NoTranscript(loads'[Len(loads')].file))
          => UNCHANGED <<allMessages, currentChatId, currentChatName, blobUrls,
                         live, db>>]_vars

\* a call on an archive without _chat.txt has returned while a session with
\* tracked handles was displayed
C2_Witness ==
  \E l \in Calls :
    loads[l].outcome = "noChat" /\ blobUrls # <<>> /\ allMessages # <<>> /\ ~loading

\* C3: in every reachable state the payload handle and the thumbnail handle of
\* every attachment of a displayed message are live.
C3_DisplayedHandlesLive == Referenced(allMessages) \subseteq live

\* C4: whenever no load is in flight, the live handles are those of the active
\* session: they were all created by one call, and there is none when no
\* session is active.
C4_OnlyActiveSessionHandlesLive ==
  InFlight = {} =>
    /\ \A u, v \in live : u[1] = v[1]
    /\ (allMessages = <<>> /\ currentChatId = "") => live = {}

\* C5: at most one processZipFile call is in flight at any time.
C5_OneLoadInFlight == Cardinality(InFlight) <= 1

\* the names of the entries of archive f that are neither the transcript nor
\* a directory
AttachmentNames(f) == {Files[f].files[k].name : k \in Attachments(f, 1)}

\* the attachment map of call l has an entry for each such file of its
\* archive, extracted (its payload handle is one the call created) and
\* classified
MapComplete(l) ==
  /\ DOMAIN loads[l].attachmentMap = AttachmentNames(loads[l].file)
  /\ \A k \in Attachments(loads[l].file, 1) :
       /\ loads[l].attachmentMap[Files[loads[l].file].files[k].name].type
            = getAttachmentType(Files[loads[l].file].files[k].name)
       /\ loads[l].attachmentMap[Files[loads[l].file].files[k].name].size
            = Files[loads[l].file].files[k].size
       /\ loads[l].attachmentMap[Files[loads[l].file].files[k].name].blobUrl
            \in {Url(l, n) : n \in 1..loads[l].urls}

\* C6: a call is at the transcript (about to decode it and run parseMessages)
\* only with an attachment map that has an entry for every entry of the
\* archive that is neither the transcript nor a directory, no thumbnail
\* pending; the messages installed are parseMessages of the transcript with
\* that map; and the map of a call that has parsed is not changed afterwards.
C6_ParserRunsOnCompleteMap ==
  [][\A l \in Calls :
       /\ loads[l].pc = "string" => MapComplete(l)
       /\ (loads[l].pc = "string" /\ loads'[l] # loads[l] /\ loads'[l].outcome # "error")
            => allMessages' =
                 parseMessages(Files[loads[l].file].files[Min(ChatFile(loads[l].file))].text,
                               loads[l].attachmentMap)
       /\ (loads[l].pc \in {"saveChat", "loadSavedChats"} /\ loads'[l].pc # "done")
            => /\ MapComplete(l)
               /\ loads'[l].attachmentMap = loads[l].attachmentMap]_vars

\* a call has parsed with a map that holds an image whose thumbnail failed
C6_Witness ==
  \E l \in Calls :
    /\ loads[l].pc = "saveChat"
    /\ loads[l].parsed # Null
    /\ \E n \in DOMAIN loads[l].attachmentMap :
         /\ loads[l].attachmentMap[n].type = "image"
         /\ "thumbnailUrl" \notin DOMAIN loads[l].attachmentMap[n]

\* C7: when the extraction of an entry fails, the call goes on with the next
\* entry or the transcript, the entry left out of the attachment map.
C7_ExtractionFailureSkipsEntry ==
  [][\A l \in Calls :
       (loads[l].pc = "blob" /\ ~Entry(l).ok /\ loads'[l] # loads[l])
         => loads'[l] = NextEntry(loads[l], loads[l].attachmentMap)]_vars

\* C8: when the thumbnail of an attachment fails, the call goes on with the
\* next entry or the transcript, nothing is alerted and loading stays as it
\* is; the attachment is in the map with its payload handle and its size,
\* and without thumbnailUrl.
C8_ThumbnailFailureIsNotFatal ==
  [][\A l \in Calls :
       (loads[l].pc = "thumbnail" /\ loads'[l] # loads[l] /\ logged' # "")
         => /\ loads'[l].pc =
                 IF Attachments(loads[l].file, loads[l].pos + 1) = {} THEN "string" ELSE "blob"
            /\ alerted' = ""
            /\ loading' = loading
            /\ Entry(l).name \in DOMAIN loads'[l].attachmentMap
            /\ loads'[l].attachmentMap[Entry(l).name].blobUrl = Url(l, loads[l].urls - 1)
            /\ loads'[l].attachmentMap[Entry(l).name].size = Entry(l).size
            /\ "thumbnailUrl" \notin DOMAIN loads'[l].attachmentMap[Entry(l).name]]_vars

\* a session is displayed in which a message has an image without thumbnail
C8_Witness ==
  \E k \in WithAttachment(allMessages) :
    /\ allMessages[k].attachment.type = "image"
    /\ "thumbnailUrl" \notin DOMAIN allMessages[k].attachment
    /\ allMessages[k].attachment.blobUrl \in live

\* C9: when saveChat fails the user is alerted and the messages the call
\* installed stay displayed; when getAllChats or deleteChat fails (the step
\* logs the failure) the user is alerted too.
C9_StoreFailuresReported ==
  [][/\ \A l \in Calls :
          (loads[l].pc = "saveChat" /\ Settles(l))
            => alerted' # "" /\ allMessages' = allMessages
     /\ logged' \in {"Error loading saved chats:", "Error deleting chat:"}
          => alerted' # ""]_vars

\* C10: the saveChat of a fresh upload adds one record under an id that no
\* stored record has, and leaves the stored records as they are.
C10_UploadAddsOneFreshRecord ==
  [][\A l \in Calls :
       (loads[l].pc = "saveChat" /\ loads'[l].pc = "loadSavedChats")
         => /\ loads[l].savedChat[1].id \notin DOMAIN db
            /\ DOMAIN db' = DOMAIN db \cup {loads[l].savedChat[1].id}
            /\ \A id \in DOMAIN db : db'[id] = db[id]]_vars

(***************************************************************************)
(* Properties of the store as the component uses it                        *)
(***************************************************************************)

PutSettles ==
  /\ loads' # <<>>
  /\ loads'[1].outcome = "ok"
  /\ deletes' = <<>>
  /\ db' = Put(db, loads'[1].savedChat[1])

DeleteSettles ==
  /\ deletes' # <<>>
  /\ deletes'[1].outcome = "ok"
  /\ loads' = <<>>
  /\ db' = Delete(db, deletes'[1].chatId)

\* C12: a successful put of a record whose id is stored leaves the number of
\* records getAll returns as it was and stores the record under that id (it
\* adds one record when the id is new); one and two further puts of the same
\* record leave the store, and so the result of getAll, as the first put did.
C12_PutKeyedByIdAndIdempotent ==
  [][PutSettles =>
       \E chat \in {loads'[1].savedChat[1]} :
         /\ chat.id \in DOMAIN db'
         /\ db'[chat.id] = chat
         /\ Len(GetAll(db')) = IF chat.id \in DOMAIN db THEN Len(GetAll(db))
                               ELSE Len(GetAll(db)) + 1
         /\ Put(db', chat) = db'
         /\ Len(GetAll(Put(db', chat))) = Len(GetAll(db'))
         /\ Len(GetAll(Put(Put(db', chat), chat))) = Len(GetAll(db'))]_vars

\* the record put last took the place of another record with its id: the list
\* read before has that other record, and as many records as the store
C12_Witness ==
  /\ loads # <<>>
  /\ loads[1].outcome = "ok"
  /\ Len(savedChats) = 2
  /\ Cardinality(DOMAIN db) = 2
  /\ \E k \in 1..Len(savedChats) :
       /\ savedChats[k].id = loads[1].savedChat[1].id
       /\ savedChats[k] # loads[1].savedChat[1]
       /\ db[savedChats[k].id] = loads[1].savedChat[1]

\* C13: after a successful put, getAll returns exactly one record with the id
\* of the record put, and it is equal to it in every field (zipBlob, name,
\* timestamp, messageCount, participants); every record getAll returns is a
\* whole record that was put; and the list that loadSavedChats sets holds the
\* records getAll returned.
C13_PutGetAllRoundTrip ==
  [][/\ PutSettles =>
          \E chat \in {loads'[1].savedChat[1]}, all \in {GetAll(db')} :
            /\ Cardinality({k \in 1..Len(all) : all[k].id = chat.id}) = 1
            /\ \A k \in 1..Len(all) :
                 /\ all[k].id = chat.id
                      => /\ all[k].zipBlob = chat.zipBlob
                         /\ all[k].name = chat.name
                         /\ all[k].timestamp = chat.timestamp
                         /\ all[k].messageCount = chat.messageCount
                         /\ all[k].participants = chat.participants
                 /\ all[k] \in StoreChats
     /\ (savedChats' # savedChats)
          => /\ Range(savedChats') = Range(GetAll(db))
             /\ Len(savedChats') = Len(GetAll(db))]_vars

\* the list read after a put has the record put, beside another record
C13_Witness ==
  /\ loads # <<>>
  /\ loads[1].outcome = "ok"
  /\ Len(savedChats) = 2
  /\ loads[1].savedChat[1] \in Range(savedChats)
  /\ loads[1].savedChat[1].zipBlob = 4
  /\ db[loads[1].savedChat[1].id] = loads[1].savedChat[1]

\* C14: a successful delete(id) leaves the keys of the store without id and
\* every other record as it was, so getAll returns what it returned before
\* without the record of that id; when no record has that id the store is
\* unchanged.
C14_DeleteRemovesExactlyOne ==
  [][DeleteSettles =>
       \E id \in {deletes'[1].chatId} :
         /\ DOMAIN db' = DOMAIN db \ {id}
         /\ \A k \in DOMAIN db' : db'[k] = db[k]
         /\ GetAll(db') = SelectSeq(GetAll(db), LAMBDA r : r.id # id)
         /\ id \notin DOMAIN db => db' = db]_vars

\* a delete of an id that no record has settled with success: the two records
\* listed before are in the store
C14_Witness ==
  /\ deletes # <<>>
  /\ deletes[1].outcome = "ok"
  /\ Len(savedChats) = 2
  /\ DOMAIN db = {savedChats[k].id : k \in 1..Len(savedChats)}
  /\ \A k \in 1..Len(savedChats) : db[savedChats[k].id] = savedChats[k]
  /\ deletes[1].chatId \notin DOMAIN db

(***************************************************************************)
(* Properties of the parser                                                *)
(***************************************************************************)

\* the body of the k-th message: the text between its header and the next
\* header (or the end), trimmed
Body(text, ms, k) ==
  trim(Sub(text, ms[k].next, IF k < Len(ms) THEN ms[k + 1].index - 1 ELSE Len(text)))

\* the marker <attached: fileName>
AttachedMarker(fileName) == AttachedOpen \o fileName \o <<">">>

\* the positions of body at which a marker of a file of the map stands
ResolvableAt(body, attachmentMap) ==
  {p \in 1..Len(body) :
     \E f \in DOMAIN attachmentMap : MatchAt(body, p, AttachedMarker(f), FALSE)}

\* the positions of body at which a marker stands that does not resolve:
\* <attached: FILENAME> with a file name that is no key of the map, or
\* <Media omitted>
UnresolvedAt(body, attachmentMap) ==
  {p \in 1..Len(body) :
     \/ MatchAt(body, p, MediaOmitted, FALSE)
     \/ /\ Attached(body, p)
        /\ MarkerAt(body, p).fileName \notin DOMAIN attachmentMap}

\* C15: the messages are as many as the successive matches of the header
\* pattern and the k-th message has the date, time and sender of the k-th
\* match; the matches stand in the order of the text without overlap, each at
\* a position where the pattern matches, and no position where the pattern
\* matches lies outside them; a transcript in which the pattern matches
\* nowhere gives no message, and the call goes on without an alert.
C15_OneMessagePerHeader ==
  loads[1].pc = "parsed" =>
    \E text \in {loads[1].text} :
      \E ms \in {HeaderMatches(text, 1)} :
        /\ Len(allMessages) = Len(ms)
        /\ \A k \in 1..Len(ms) :
             /\ allMessages[k].date = ms[k].date
             /\ allMessages[k].time = ms[k].time
             /\ allMessages[k].sender = ms[k].sender
             /\ HeaderAt(text, ms[k].index)
             /\ k < Len(ms) => ms[k].next <= ms[k + 1].index
        /\ \A i \in 1..Len(text) :
             HeaderAt(text, i) => \E k \in 1..Len(ms) : ms[k].index <= i /\ i < ms[k].next
        /\ (\A i \in 1..Len(text) : ~HeaderAt(text, i)) => allMessages = <<>>
        /\ alerted = ""
        /\ logged = ""

\* two headers gave two messages in the order of the text
C15_Witness ==
  /\ loads[1].pc = "parsed"
  /\ Len(allMessages) = 2
  /\ allMessages[1].sender = <<"A", "l">>
  /\ allMessages[1].text = <<"h", "i">>
  /\ allMessages[2].sender = <<"B", "o">>

\* what C16 says of a message with the given body
AttachmentAsMarked(msg, body, attachmentMap) ==
  /\ "attachment" \in DOMAIN msg <=> ResolvableAt(body, attachmentMap) # {}
  /\ "attachment" \in DOMAIN msg =>
       \E f \in DOMAIN attachmentMap :
         /\ \E p \in 1..Len(body) : MatchAt(body, p, AttachedMarker(f), FALSE)
         /\ msg.attachment = attachmentMap[f]
         /\ msg.text = trim(RemoveFirst(body, AttachedMarker(f)))

\* C16: a message has an attachment exactly when its body contains the marker
\* <attached: FILENAME> of a key FILENAME of the attachment map; then the
\* attachment is the map's entry for FILENAME and the text is the body without
\* the marker, trimmed.
C16_AttachmentIffResolvableMarker ==
  loads[1].pc = "parsed" =>
    \E ms \in {HeaderMatches(loads[1].text, 1)} :
      \A k \in 1..Len(allMessages) :
        AttachmentAsMarked(allMessages[k], Body(loads[1].text, ms, k),
                           loads[1].attachmentMap)

\* what C17 says of a message with the given body
UnresolvedAsStripped(msg, body, attachmentMap) ==
  /\ (UnresolvedAt(body, attachmentMap) # {} /\ ResolvableAt(body, attachmentMap) = {})
       => /\ "attachment" \notin DOMAIN msg
          /\ \E p \in UnresolvedAt(body, attachmentMap) :
               msg.text = trim(RemoveFirst(body, MarkerAt(body, p).all))
  /\ body = MediaOmitted => msg.text = <<>>

\* C17: a message whose body contains a marker that does not resolve (and
\* none that resolves) has no attachment and its text is the body without the
\* marker, trimmed; the body <Media omitted> gives the empty text.
C17_UnresolvedMarkerStripped ==
  loads[1].pc = "parsed" =>
    \E ms \in {HeaderMatches(loads[1].text, 1)} :
      \A k \in 1..Len(allMessages) :
        UnresolvedAsStripped(allMessages[k], Body(loads[1].text, ms, k),
                             loads[1].attachmentMap)

(***************************************************************************)
(* Properties of the search                                                *)
(***************************************************************************)

\* performSearch is the handler that ran last
AfterSearch == handled # Null /\ handled[1].handler = "performSearch"

\* the term is empty or has whitespace only
Blank(term) == \A i \in 1..Len(term) : IsSpace(term[i])

\* s contains term as a substring, letter case ignored
ContainsIgnoringCase(s, term) == \E p \in 1..(Len(s) + 1) : MatchAt(s, p, term, TRUE)

\* the two terms differ in letter case at most
SameButCase(t, u) ==
  Len(t) = Len(u) /\ \A i \in 1..Len(t) : LowerChar(t[i]) = LowerChar(u[i])

\* C18: after a search with an empty or whitespace-only term the result
\* sequence is empty and the cursor is -1, whatever the messages, the results
\* and the cursor were.
C18_BlankTermClearsSearch ==
  (AfterSearch /\ Blank(searchTerm)) => (searchResults = <<>> /\ currentSearchIndex = -1)

\* a search with the term " " found two results or more, the cursor on the
\* second, and messages that contain a space, and cleared both
C18_Witness ==
  /\ AfterSearch
  /\ searchTerm = <<" ">>
  /\ Len(handled[1].searchResults) >= 2
  /\ handled[1].currentSearchIndex = 1
  /\ \E k \in 1..Len(allMessages) : includes(allMessages[k].text, <<" ">>)
  /\ searchResults = <<>>
  /\ currentSearchIndex = -1

\* C19: after a search with a non-blank term the results are strictly
\* ascending (so without duplicates) and are exactly the indices, from 0, of
\* the messages whose text or sender contains the term, letter case ignored;
\* the search of a term that differs from it in case only gives the same
\* sequence.
C19_ResultsAreTheMatchingIndices ==
  (AfterSearch /\ ~Blank(searchTerm)) =>
    /\ \A k \in 1..(Len(searchResults) - 1) : searchResults[k] < searchResults[k + 1]
    /\ Range(searchResults) =
         {k - 1 : k \in {j \in 1..Len(allMessages) :
                           \/ ContainsIgnoringCase(allMessages[j].text, searchTerm)
                           \/ ContainsIgnoringCase(allMessages[j].sender, searchTerm)}}
    /\ \A t \in SearchTerms :
         SameButCase(t, searchTerm) => Results(allMessages, t) = searchResults

\* the term AL found the sender Al, the text "Hi all" and the sender al
C19_Witness ==
  /\ AfterSearch
  /\ searchTerm = <<"A", "L">>
  /\ Len(allMessages) = 3
  /\ allMessages[1].sender = <<"A", "l">>
  /\ allMessages[2].text = <<"H", "i", " ", "a", "l", "l">>
  /\ allMessages[3].sender = <<"a", "l">>
  /\ searchResults = <<0, 1, 2>>

\* C20: after every search the cursor is 0 when the result sequence is not
\* empty and -1 when it is, wherever the cursor was.
C20_SearchResetsCursor ==
  AfterSearch => currentSearchIndex = IF searchResults # <<>> THEN 0 ELSE -1

\* a search that found the cursor on the third of three results set it to 0
\* on a new result sequence of two
C20_Witness ==
  /\ AfterSearch
  /\ Len(handled[1].searchResults) = 3
  /\ handled[1].currentSearchIndex = 2
  /\ Len(searchResults) = 2
  /\ currentSearchIndex = 0

\* the handler that ran last
After(handler) == handled # Null /\ handled[1].handler = handler

\* the cursor after k calls of next from cursor
RECURSIVE NextTimes(_, _, _)
NextTimes(cursor, results, k) ==
  IF k = 0 THEN cursor ELSE NextTimes(nextIndex(cursor, results), results, k - 1)

\* C21: with n results, n > 0, next has moved the cursor from c to c + 1, or
\* to 0 from n - 1, and prev from c to c - 1, or to n - 1 from 0; from every
\* cursor, n calls of next lead back to it and fewer do not.
C21_NavigationIsCircular ==
  searchResults # <<>> =>
    \E n \in {Len(searchResults)} :
      /\ After("nextSearchResult") =>
           currentSearchIndex = IF handled[1].currentSearchIndex = n - 1 THEN 0
                                ELSE handled[1].currentSearchIndex + 1
      /\ After("prevSearchResult") =>
           currentSearchIndex = IF handled[1].currentSearchIndex = 0 THEN n - 1
                                ELSE handled[1].currentSearchIndex - 1
      /\ NextTimes(currentSearchIndex, searchResults, n) = currentSearchIndex
      /\ \A k \in 1..(n - 1) :
           NextTimes(currentSearchIndex, searchResults, k) # currentSearchIndex

\* next has moved the cursor from the last of three results to the first
C21_Witness ==
  /\ After("nextSearchResult")
  /\ Len(searchResults) = 3
  /\ handled[1].currentSearchIndex = 2
  /\ currentSearchIndex = 0

\* C22: a step of next or prev that finds the result sequence empty leaves
\* the cursor, the results, the search term and the messages as they are and
\* makes no call on the list.
C22_NavigationOnEmptyIsNoOp ==
  [][(/\ handled' # Null
      /\ handled'[1].handler \in {"nextSearchResult", "prevSearchResult"}
      /\ searchResults = <<>>)
       => /\ UNCHANGED <<currentSearchIndex, searchResults, searchTerm, allMessages>>
          /\ handled'[1].listRef = Null]_vars

\* prev ran on an empty result sequence, with a term typed and messages shown
C22_Witness ==
  /\ After("prevSearchResult")
  /\ handled[1].searchResults = <<>>
  /\ handled[1].listRef = Null
  /\ searchTerm # <<>>
  /\ allMessages # <<>>
  /\ searchResults = <<>>
  /\ currentSearchIndex = -1

(***************************************************************************)
(* Properties of the classifier                                            *)
(***************************************************************************)

\* the name has a dot, and then its extension: the text after the last dot
HasDot(filename) == \E k \in 1..Len(filename) : filename[k] = "."

Extension(filename) ==
  Sub(filename, Max({k \in 1..Len(filename) : filename[k] = "."}) + 1, Len(filename))

\* the extension of the name is one of exts, letter case ignored
ExtensionIn(filename, exts) ==
  HasDot(filename) /\ \E e \in exts : SameButCase(Extension(filename), e)

\* the type by the precedence of C23
TypeByPrecedence(filename) ==
  IF ExtensionIn(filename, ImageExts) THEN "image"
  ELSE IF ExtensionIn(filename, VideoExts) THEN "video"
  ELSE IF ExtensionIn(filename, AudioExts) THEN "audio"
  ELSE IF ContainsIgnoringCase(filename, StickerWord) THEN "sticker"
  ELSE "document"

\* C23: the type is image when the extension (the text after the last dot),
\* letter case ignored, is an image extension, else video and audio likewise,
\* else sticker when the name contains "sticker", letter case ignored, else
\* document; a name with an image extension that contains "sticker" is an
\* image, and a name whose text after the last dot is no listed extension is
\* none of image, video, audio.
C23_ClassifyByExtensionThenSticker ==
  loads[1].pc = "classified" =>
    /\ loads[1].type = TypeByPrecedence(loads[1].filename)
    /\ ~ExtensionIn(loads[1].filename, ImageExts \cup VideoExts \cup AudioExts)
         => loads[1].type \notin {"image", "video", "audio"}

\* C25: after every change of the search term, with no submit step, the
\* result sequence holds exactly the indices of the messages that match the
\* term now in the input (none for a blank term).
C25_ResultsFollowTerm ==
  After("setSearchTerm") =>
    Range(searchResults) =
      IF Blank(searchTerm) THEN {}
      ELSE {k - 1 : k \in {j \in 1..Len(allMessages) :
                             \/ ContainsIgnoringCase(allMessages[j].text, searchTerm)
                             \/ ContainsIgnoringCase(allMessages[j].sender, searchTerm)}}

\* the text of msg is body, without the marker of its file when it has an
\* attachment
TextOfBody(msg, body, attachmentMap) ==
  IF "attachment" \in DOMAIN msg
  THEN \E f \in DOMAIN attachmentMap : msg.text = trim(RemoveFirst(body, AttachedMarker(f)))
  ELSE msg.text = body

\* the characters of s that are no white space, in order
RECURSIVE Ink(_)
Ink(s) ==
  IF s = <<>> THEN <<>>
  ELSE Ink(SubSeq(s, 1, Len(s) - 1)) \o (IF IsSpace(s[Len(s)]) THEN <<>> ELSE <<s[Len(s)]>>)

\* C27: the text of each message is made of its body, the text between the
\* end of its own header and the start of the next header (the end of the
\* text for the last message), trimmed; a line break inside the body is in
\* the text of that message, and the text before the first header is in no
\* message: between them the messages hold no more than what stands between
\* the headers.
C27_BodyBetweenHeaders ==
  loads[1].pc = "parsed" =>
    \E text \in {loads[1].text}, attachmentMap \in {loads[1].attachmentMap} :
      \E ms \in {HeaderMatches(text, 1)} :
        /\ Len(allMessages) = Len(ms)
        /\ \A k \in 1..Len(ms) :
             \E from \in {ms[k].next},
                to \in {IF k < Len(ms) THEN ms[k + 1].index - 1 ELSE Len(text)} :
               /\ TextOfBody(allMessages[k], trim(Sub(text, from, to)), attachmentMap)
               /\ "attachment" \notin DOMAIN allMessages[k] =>
                    Ink(allMessages[k].text) = Ink(Sub(text, from, to))

\* "hi" before the first header is in no message and the line break of the
\* body "a\nb" is in the text of its message
C27_Witness ==
  /\ loads[1].pc = "parsed"
  /\ loads[1].text = <<"h", "i">> \o Fragments[1] \o <<"a", "\n", "b">>
  /\ Len(allMessages) = 1
  /\ allMessages[1].text = <<"a", "\n", "b">>

\* C28: the sender of every message is trimmed, every participant listed is
\* the sender of a message at least, and with a participant chosen as self
\* the rows drawn as sent are those of the messages of that participant.
C28_SendersTrimmed ==
  loads[1].pc = "parsed" =>
    /\ \A k \in 1..Len(allMessages) : allMessages[k].sender = trim(allMessages[k].sender)
    /\ \A self \in Range(allSenders) :
         /\ \E k \in 1..Len(allMessages) : allMessages[k].sender = self
         /\ \A k \in 1..Len(allMessages) :
              isSent(allMessages[k], self) <=> trim(allMessages[k].sender) = self

(***************************************************************************)
(* The list of saved chats (Spec)                                          *)
(***************************************************************************)

\* an upload whose saveChat succeeded settles in this step, or a delete whose
\* deleteChat succeeded
UploadSettles ==
  \E l \in 1..Len(loads) : loads[l].pc = "loadSavedChats" /\ loads'[l].pc = "done"

DeleteSucceeds ==
  \E d \in 1..Len(deletes) : deletes[d].pc = "loadSavedChats" /\ deletes'[d].pc = "done"

\* the list holds each record of the store once and nothing else, the later
\* timestamps first
MirrorsStore(chats, store) ==
  /\ Len(chats) = Cardinality(DOMAIN store)
  /\ Range(chats) = {store[id] : id \in DOMAIN store}
  /\ \A i, j \in 1..Len(chats) : i < j => chats[i].timestamp >= chats[j].timestamp

\* C29: when a successful upload or a successful delete has settled, the
\* list of saved chats holds exactly the records then in the store, ordered
\* by timestamp descending.
C29_ListMirrorsStore ==
  [][(UploadSettles \/ DeleteSucceeds) => MirrorsStore(savedChats', db')]_vars

(***************************************************************************)
(* The cursor and the results (SpecSession)                                *)
(***************************************************************************)

\* C30: in every state the cursor is -1 exactly when the result sequence is
\* empty and otherwise an index of the result sequence, from 0, whatever
\* searches, moves of the cursor, loads, closings and deletes led there.
C30_CursorAgreesWithResults ==
  /\ currentSearchIndex = -1 <=> searchResults = <<>>
  /\ searchResults # <<>> =>
       0 <= currentSearchIndex /\ currentSearchIndex < Len(searchResults)

\* while a chat is reopened and after a chat was deleted, prev has moved the
\* cursor from the first of three results to the last
C30_Witness ==
  /\ After("prevSearchResult")
  /\ handled[1].currentSearchIndex = 0
  /\ Len(searchResults) = 3
  /\ currentSearchIndex = 2
  /\ \E l \in 1..Len(loads) : loads[l].pc # "done"
  /\ Len(deletes) = 1

\* C31: in every state every search result is an index of the messages
\* displayed, from 0 and below their number.
C31_ResultsIndexMessages ==
  \A k \in 1..Len(searchResults) :
    0 <= searchResults[k] /\ searchResults[k] < Len(allMessages)

(***************************************************************************)
(* The loading flag and the chat identified (Spec)                         *)
(***************************************************************************)

\* C32: the loading flag is set in every state in which a processZipFile
\* call has started and not settled, and it is not set once every call has
\* settled, whether with success or not.
C32_LoadingWhileInFlight ==
  /\ InFlight # {} => loading
  /\ InFlight = {} => ~loading

\* C33: in every state currentChatId is empty or the id of a record that
\* the store holds.
C33_CurrentChatIsStored == currentChatId = "" \/ currentChatId \in DOMAIN db

\* the date, time and sender of each message
Headers(ms) ==
  [k \in 1..Len(ms) |-> [date |-> ms[k].date, time |-> ms[k].time, sender |-> ms[k].sender]]

\* the messages ms are those of the transcript of archive f
ParsedFrom(ms, f) ==
  /\ Files[f].zip
  /\ ChatFile(f) # {}
  /\ Headers(ms) = Headers(parseMessages(Files[f].files[Min(ChatFile(f))].text, <<>>))

\* C34: whenever no load is in flight and messages are displayed, there is a
\* current chat id, and the current chat name is the name of the archive
\* that the messages were parsed from.
C34_ChatIdentifiesMessages ==
  (InFlight = {} /\ allMessages # <<>>) =>
    /\ currentChatId # ""
    /\ \E f \in FileIds :
         /\ ParsedFrom(allMessages, f)
         /\ currentChatName = extractChatName(Files[f].name)

\* handleBackToHome is the handler that ran last and no processZipFile call
\* has started since
AfterHome ==
  /\ handled # Null
  /\ handled[1].handler = "handleBackToHome"
  /\ Len(loads) = handled[1].started

\* the empty state: no messages, no current chat, no participants, no
\* tracked and no live handles
Home ==
  /\ allMessages = <<>>
  /\ currentChatId = ""
  /\ currentChatName = <<>>
  /\ allSenders = <<>>
  /\ blobUrls = <<>>
  /\ live = {}

\* C35: from handleBackToHome until the next load is started the application
\* is in the empty state, whatever the calls do that were in flight when the
\* user returned home.
C35_HomeUntilNewLoad == AfterHome => Home

\* the handles that the displayed session refers to, tracks, or has live
SessionHandles == Referenced(allMessages) \cup Range(blobUrls) \cup live

\* the second call was started while the first was in flight, it has
\* succeeded, and in this step the first succeeds as the last to settle
EarlierSettlesLast ==
  /\ Len(loads) = 2
  /\ loads[1].pc # "done"
  /\ loads[2].pc = "done" /\ loads[2].outcome = "ok"
  /\ loads'[1].pc = "done" /\ loads'[1].outcome = "ok"

\* C36: when two loads overlap, the session displayed in the end is that of
\* the load started last and holds nothing of the earlier one: here, when
\* the earlier call is the last to settle, every handle that the messages
\* refer to, that is tracked or that is live was created by the later call.
C36_LatestLoadWins ==
  [][EarlierSettlesLast => \A u \in SessionHandles' : u[1] = 2]_vars

(***************************************************************************)
(* Deleting a saved chat (Spec)                                            *)
(***************************************************************************)

\* the search state
SearchState == <<searchTerm, searchResults, currentSearchIndex>>

\* what the claim says of the step of delete d
DeleteFrame(d) ==
  /\ (deletes[d].pc = "deleteChat" /\ deletes'[d].pc = "done") =>
       UNCHANGED <<session, SearchState, handles, savedChats, db>>
  /\ (deletes[d].pc = "deleteChat" /\ deletes'[d].pc = "loadSavedChats") =>
       UNCHANGED <<session, SearchState, handles>>
  /\ (deletes[d].pc = "loadSavedChats" /\ deletes'[d].pc = "done") =>
       IF deletes[d].currentChatId = deletes[d].chatId
       THEN /\ allMessages' = <<>>
            /\ currentChatId' = ""
            /\ currentChatName' = <<>>
            /\ allSenders' = <<>>
            /\ searchTerm' = <<>>
            /\ searchResults' = <<>>
            /\ currentSearchIndex' = -1
            /\ blobUrls' = <<>>
            /\ (Referenced(allMessages) \cup Range(blobUrls)) \cap live' = {}
       ELSE UNCHANGED <<session, SearchState, handles>>

Reports ==
  /\ handled' # handled \/ rowHeights' \notin {rowHeights, <<>>}
  /\ handled' # Null
  /\ handled'[1].handler = "setRowHeight"

\* the step is the one of lines 429-430 of some call: a session begins
SessionBegins ==
  \E l \in 1..Len(loads) :
    /\ loads[l].pc = "string"
    /\ \/ loads'[l].pc = "saveChat"
       \/ loads'[l].pc = "done" /\ loads'[l].outcome = "ok"

\* what the claim says of one step, for the rows of the session displayed
\* after it
HeightsFollowReports ==
  /\ \A i \in 0..(Len(allMessages') - 1) :
       getRowHeight(i)' = IF Reports /\ handled'[1].index = i THEN handled'[1].size
                          ELSE IF SessionBegins THEN 120
                          ELSE getRowHeight(i)
  /\ Reports =>
       \E index \in {handled'[1].index}, size \in {handled'[1].size} :
         IF index \in DOMAIN rowHeights /\ rowHeights[index] = size
         THEN /\ rowHeights' = rowHeights
              /\ handled'[1].listRef = Null
         ELSE /\ rowHeights'[index] = size
              /\ handled'[1].listRef = <<[method |-> "resetAfterIndex", index |-> index]>>

\* C24: for every index below the number of messages the height estimate is
\* 120 until the row has reported a height in the session displayed and the
\* last height reported afterwards; a report that differs from the stored
\* height stores it and resets the layout of the list from that index on; a
\* report of the stored height changes nothing and makes no call on the list
C24_RowHeights == [][HeightsFollowReports]_vars

\* a row whose height is stored reports the same height again and another
\* row is still at the placeholder, after a second load was started
C24_Witness ==
  /\ handled # Null
  /\ handled[1].handler = "setRowHeight"
  /\ handled[1].stored = <<handled[1].size>>
  /\ handled[1].listRef = Null
  /\ Len(allMessages) = 2
  /\ \E i \in 0..1 : i \notin DOMAIN rowHeights /\ getRowHeight(i) = 120
  /\ Len(loads) = 2

(***************************************************************************)
(* The media panel (SpecMedia)                                             *)
(***************************************************************************)

\* the number that the decimal digits of s write
RECURSIVE Number(_)
Number(s) ==
  IF s = <<>> THEN 0
  ELSE 10 * Number(SubSeq(s, 1, Len(s) - 1))
         + (CHOOSE d \in 0..9 : <<"0", "1", "2", "3", "4", "5", "6", "7", "8", "9">>[d + 1] = s[Len(s)])

\* the position of the first c in s
IndexOf(s, c) == Min({k \in 1..Len(s) : s[k] = c})

\* the day of a message as a number that grows with the date: the date is
\* two numbers around a slash, day and month
Day(msg) ==
  Number(SubSeq(msg.date, 1, IndexOf(msg.date, "/") - 1))
    + 32 * Number(SubSeq(msg.date, IndexOf(msg.date, "/") + 1, Len(msg.date)))

\* the messages that the filter admits
Admits(mediaFilter, msg) ==
  /\ "attachment" \in DOMAIN msg
  /\ mediaFilter = "images" => msg.attachment.type \in {"image", "sticker"}
  /\ mediaFilter = "videos" => msg.attachment.type = "video"
  /\ mediaFilter = "documents" => msg.attachment.type \in {"document", "audio"}

\* C26: for every filter the items of the media grid are the messages with
\* an attachment that the filter admits, each as often as it occurs in the
\* session, and no item is of an earlier day than an item after it (newest
\* first).
C26_MediaNewestFirst ==
  loads[1].pc = "rendered" =>
    \E items \in {loads[1].items} :
      /\ \A msg \in Range(allMessages) \cup Range(items) :
           Cardinality({k \in 1..Len(items) : items[k] = msg})
             = IF Admits(loads[1].mediaFilter, msg)
               THEN Cardinality({k \in 1..Len(allMessages) : allMessages[k] = msg})
               ELSE 0
      /\ \A i, j \in 1..Len(items) : i < j => Day(items[i]) >= Day(items[j])

(***************************************************************************)
(* The user of the chat view (SpecUser)                                    *)
(***************************************************************************)

\* the user that lines 435-439 select for the participants a load installs
UserOf(name, senders) ==
  IF name # <<>> /\ name \in Range(senders) THEN name ELSE <<>>

\* C38: at every time currentUser is empty (view only) or one of allSenders,
\* whatever the selector was set to, and the step of a load that installs its
\* messages (a load that succeeds) leaves currentUser the saved username when
\* that name is one of the participants of the archive and empty otherwise
C38_CurrentUserIsParticipant ==
  [][/\ currentUser' = <<>> \/ currentUser' \in Range(allSenders')
     /\ SessionBegins =>
          /\ allSenders' = Senders(allMessages')
          /\ currentUser' = UserOf(savedUsername, allSenders')]_vars

\* nobody of the archive bears the saved name, so that its load selected
\* nobody, and the selector was then set to the second participant
C38_Witness ==
  /\ Len(loads) = 1
  /\ loads[1].pc = "done" /\ loads[1].outcome = "ok"
  /\ savedUsername = <<"C", "y">>
  /\ allSenders = <<UserName, <<"B", "o">>>>
  /\ currentUser = <<"B", "o">>

====
